---- MODULE Spec2Model ----
(***************************************************************************)
(* Assisted grasping of igibson.robots.manipulation_robot.ManipulationRobot *)
(* as a state machine.  The physics engine (the module-level name p, the    *)
(* simulator and the scene registry) is the environment: what it reports    *)
(* in a call is an input of that call, what the robot asks it to do         *)
(* (constraints, collision filters, joint resets) is kept as state.         *)
(*                                                                          *)
(* Python values: None is the empty tuple, any other optional value x is    *)
(* the one-element tuple <<x>>; a dict is an association list (a sequence   *)
(* of <<key, value>> in insertion order); a dict object has an address in   *)
(* heap, so that two names bound to the same dict see each other's          *)
(* in-place updates.  Floats are scaled to integers: forces in newtons,     *)
(* fractions in tenths, constraint violation in hundredths, time in ticks   *)
(* of 1/120 s.                                                              *)
(***************************************************************************)
EXTENDS Integers, Sequences, FiniteSets, TLC

VARIABLES
    n_arms,                 \* self.n_arms, fixed by the robot model (1 unless overridden)
    grasping_mode,          \* self.grasping_mode
    finger_joint_names,     \* self.finger_joint_names[arm], fixed by the robot model
    _ag_data,               \* per arm: None or <<body id, link id>>
    _ag_freeze_joint_pos,   \* per arm: address of the dict joint name -> position
    _ag_obj_in_hand,        \* per arm: None or <<body id>>
    _ag_obj_cid,            \* per arm: None or <<constraint id>>
    _ag_obj_cid_params,     \* per arm: address of the dict of constraint parameters
    _ag_freeze_gripper,     \* per arm: None, <<TRUE>> or <<FALSE>>
    _ag_release_counter,    \* per arm: None or <<number of steps>>
    heap,                   \* address -> dict, the dict objects still referenced
    constraints,            \* physics engine: constraint id -> its parameters
    coll_disabled,          \* physics engine: <<arm, body id>> with finger collisions off
    saved,                  \* None or <<dump>>: the record the caller keeps
    err,                    \* "none", or the exception that ended the program
    release_calls,          \* how often _release_grasp was called from outside a step
    _controllers,           \* per arm: the gripper controller self._controllers["gripper_<arm>"]
    is_grasping_state,      \* per arm: None or <<what is_grasping returned last>>
    assisted_grasp_points,  \* per arm: the start and the end points, each None or <<points>>
    heat_source,            \* None, or the HeatSourceOrSink state of an object of the scene
    simple_env              \* None, or the SimpleEnv object of the program

vars == <<n_arms, grasping_mode, finger_joint_names, _ag_data, _ag_freeze_joint_pos,
          _ag_obj_in_hand, _ag_obj_cid, _ag_obj_cid_params, _ag_freeze_gripper,
          _ag_release_counter, heap, constraints, coll_disabled,
          saved, err, release_calls, _controllers, is_grasping_state,
          assisted_grasp_points, heat_source, simple_env>>

-----------------------------------------------------------------------------
(* Python values *)

None == <<>>
Some(x) == <<x>>

\* bool(x) of an optional integer: None and 0 are false
Truthy(x) == x # None /\ x[1] # 0

\* bool(x) of an optional boolean: None and False are false
TruthyFlag(x) == x # None /\ x[1]

EmptyDict == <<>>
DictKeys(d) == {d[i][1] : i \in DOMAIN d}
DictGet(d, k) == d[CHOOSE i \in DOMAIN d : d[i][1] = k][2]
DictSet(d, k, v) ==
    IF k \in DictKeys(d)
    THEN [i \in DOMAIN d |-> IF d[i][1] = k THEN <<k, v>> ELSE d[i]]
    ELSE Append(d, <<k, v>>)

RECURSIVE DictUpdate(_, _)
DictUpdate(d, items) ==
    IF items = <<>> THEN d
    ELSE DictUpdate(DictSet(d, Head(items)[1], Head(items)[2]), Tail(items))

\* a dict key: a Python str or a Python int, written by its text
StrKey(text) == <<"str", text>>
IntKey(text) == <<"int", text>>

-----------------------------------------------------------------------------
(* Module constants of manipulation_robot.py *)

ASSIST_FRACTION == 10
ARTICULATED_ASSIST_FRACTION == 7
MIN_ASSIST_FORCE == 0
MAX_ASSIST_FORCE == 500
ASSIST_FORCE ==
    MIN_ASSIST_FORCE + ((MAX_ASSIST_FORCE - MIN_ASSIST_FORCE) * ASSIST_FRACTION) \div 10
CONSTRAINT_VIOLATION_THRESHOLD == 10
RELEASE_WINDOW == 4

\* the tolerances of is_grasping, in thousandths (of the joint's unit of
\* position, and of its unit of velocity or torque)
POS_TOLERANCE == 2
VEL_TOLERANCE == 10

\* class IsGraspingState(IntEnum)
IsGraspingState == [TRUE |-> 1, UNKNOWN |-> 0, FALSE |-> -1]

\* self.simulator.render_timestep, in the ticks of RELEASE_WINDOW (here 1/60 s)
render_timestep == 2

-----------------------------------------------------------------------------
(* The robot model and the bounds of what the engine reports *)

arm_names == [i \in 1..n_arms |-> IF i = 1 THEN "0" ELSE "1"]
ArmSet == {arm_names[i] : i \in 1..n_arms}

\* self.eef_links[arm].body_id, and every body of the robot
eef_body_id == 2
get_body_ids == {2, 3}
finger_link_ids == {1, 2}

\* the (body, link) pairs a contact or a ray can report: the id -1 of no
\* body, a rigid object (base link -1), a link of an articulated object, the
\* end effector's own body and another body of the robot
ContactPairs == {<<-1, -1>>, <<0, -1>>, <<1, 0>>, <<2, 0>>, <<3, 0>>}

MaxContacts == 2
MaxRayHits == 1
MaxDistance == 2
MaxConstraints == 2
MaxReleaseCalls == 1

\* the reports candidate selection is studied on: two objects, each touched
\* by up to both fingers and hit by a ray or not
SelectionPairs == {<<0, -1>>, <<1, 0>>}
MaxSelectionContacts == 4
MaxSelectionRayHits == 2
MaxDistanceToTarget == 4

Commands == {-1, 0, 1}
Violations == {0, CONSTRAINT_VIOLATION_THRESHOLD, CONSTRAINT_VIOLATION_THRESHOLD + 5}
JointTypes == {"JOINT_REVOLUTE", "JOINT_PRISMATIC", "JOINT_FIXED"}
SceneObjects == {"absent", "no_fixed_base", "free_base", "fixed_base"}
JointPositions == {0, 1}

\* the finger joints of the one gripper: named as in a URDF, named by a
\* numeral, or none
FingerJointNameChoices == {<<"finger_joint">>, <<"7">>, <<>>}

\* the texts int() accepts among the joint names
IntLiterals == {"7"}

-----------------------------------------------------------------------------
(* What the engine reports during one call, per arm.  A field the call does *)
(* not read keeps its default.                                              *)

ContactResults ==
    {[linkIndexA |-> f, bodyUniqueIdB |-> pr[1], linkIndexB |-> pr[2]] :
        f \in finger_link_ids, pr \in ContactPairs}
ContactLists == {c \in SUBSET ContactResults : Cardinality(c) <= MaxContacts}
RayLists == {r \in SUBSET ContactPairs : Cardinality(r) <= MaxRayHits}
Distances == 1..MaxDistance

DefaultInput ==
    [action |-> 0,                \* action[controller_action_idx["gripper_<arm>"]]
     violation |-> 0,             \* get_constraint_violation(cid)
     none_handle_ok |-> TRUE,     \* whether the engine tolerates the handle None
     con_results |-> {},          \* p.getContactPoints over the finger links
     ray_results |-> {},          \* p.rayTestBatch, both passes
     dist |-> <<>>,               \* candidate -> distance to the gripper centre
     first |-> None,              \* the nearest candidate the set iterates first
     can_assisted_grasp |-> FALSE,\* simulator.can_assisted_grasp(ag_bid, ag_link)
     joint_type |-> "JOINT_FIXED",\* p.getJointInfo(ag_bid, ag_link)[2]
     scene_object |-> "absent",   \* scene.objects_by_id[ag_bid] and its fixed_base
     joint_pos |-> <<>>]          \* finger joint name -> joint.get_state()[0]

-----------------------------------------------------------------------------
(* Queries of the gripper's surroundings *)

\* _find_gripper_contacts: contact_data
ContactData(con_results) ==
    {<<c.bodyUniqueIdB, c.linkIndexB>> :
        c \in {x \in con_results : x.bodyUniqueIdB \notin {-1, eef_body_id}}}

\* _find_gripper_contacts: robot_contact_links
RobotContactLinks(con_results) ==
    [o \in ContactData(con_results) |->
        {c.linkIndexA : c \in {x \in con_results :
            <<x.bodyUniqueIdB, x.linkIndexB>> = o}}]

_find_gripper_raycast_collisions(ray_results) ==
    {r \in ray_results : r[1] \notin {-1, eef_body_id}}

\* a variant of CandidatesSet that forgets the ray filter of assisted mode
CandidatesSetContactsOnly(mode, in) == ContactData(in.con_results)

\* the candidates of _calculate_in_hand_object once the mode's filter is applied
CandidatesSet(mode, in) ==
    IF mode = "assisted"
    THEN ContactData(in.con_results)
            \cap _find_gripper_raycast_collisions(in.ray_results)
    ELSE ContactData(in.con_results)

\* the candidates at the least distance: sorted() is stable, so of these the
\* one the set iterates first becomes candidate_data[0]
Nearest(candidates_set, dist) ==
    {c \in candidates_set : \A d \in candidates_set : dist[c] <= dist[d]}

\* a variant of SortedFirst that takes any of the nearest, whatever the set's order
SortedAny(candidates_set, dist, first) ==
    CHOOSE c \in Nearest(candidates_set, dist) : TRUE

\* candidate_data[0] after sorted(candidate_data, key=lambda x: x[2])
SortedFirst(candidates_set, dist, first) ==
    CHOOSE c \in Nearest(candidates_set, dist) : c = first

\* a variant of TouchingAtLeastTwoFingers with the threshold off by one
TouchingAtLeastThreeFingers(robot_contacts) ==
    Cardinality(finger_link_ids \cap robot_contacts) >= 3

TouchingAtLeastTwoFingers(robot_contacts) ==
    Cardinality(finger_link_ids \cap robot_contacts) >= 2

\* a variant of _calculate_in_hand_object that passes on to a farther
\* candidate when the nearest is not touched by two fingers
CalculateAmongTouched(mode, in) ==
    IF mode = "physical" THEN [raised |-> "ValueError", value |-> None]
    ELSE LET candidates_set == CandidatesSet(mode, in)
             touched == {c \in candidates_set :
                TouchingAtLeastTwoFingers(RobotContactLinks(in.con_results)[c])}
         IN IF candidates_set = {} THEN [raised |-> "none", value |-> None]
            ELSE IF SortedFirst(candidates_set, in.dist, in.first)[1] \in get_body_ids
            THEN [raised |-> "AssertionError", value |-> None]
            ELSE IF ~in.can_assisted_grasp \/ touched = {}
            THEN [raised |-> "none", value |-> None]
            ELSE [raised |-> "none", value |-> CHOOSE c \in touched : TRUE]

\* returns [raised, value]: the exception raised, or the (body, link) found or None
_calculate_in_hand_object(mode, in) ==
    IF mode = "physical" THEN [raised |-> "ValueError", value |-> None]
    ELSE LET candidates_set == CandidatesSet(mode, in) IN
      IF candidates_set = {} THEN [raised |-> "none", value |-> None]
      ELSE LET ag == SortedFirst(candidates_set, in.dist, in.first)
               robot_contacts == RobotContactLinks(in.con_results)[ag]
           IN IF ag[1] \in get_body_ids
              THEN [raised |-> "AssertionError", value |-> None]
              ELSE IF (~in.can_assisted_grasp)
                        \/ (~TouchingAtLeastTwoFingers(robot_contacts))
                   THEN [raised |-> "none", value |-> None]
                   ELSE [raised |-> "none", value |-> ag]

-----------------------------------------------------------------------------
(* The inputs a step can read, by what it reads *)

\* a lone candidate is the nearest at any distance: one distance stands for all
WithCandidates(mode, in) ==
    LET cs == CandidatesSet(mode, in) IN
    IF cs = {} THEN {in}
    ELSE UNION {{[in EXCEPT !.dist = d, !.first = c] : c \in Nearest(cs, d)} :
                    d \in [cs -> IF Cardinality(cs) = 1 THEN {1} ELSE Distances]}

WithAssistable(mode, in) ==
    IF CandidatesSet(mode, in) = {} \/ in.first[1] \in get_body_ids THEN {in}
    ELSE {[in EXCEPT !.can_assisted_grasp = b] : b \in BOOLEAN}

WithGraspInputs(mode, in) ==
    IF _calculate_in_hand_object(mode, in).value = None THEN {in}
    ELSE {[in EXCEPT !.joint_type = jt, !.scene_object = so] :
            jt \in (IF in.first[2] = -1 THEN {"JOINT_FIXED"} ELSE JointTypes),
            so \in (IF in.first[2] = -1 THEN {"absent"} ELSE SceneObjects)}

\* the inputs of a step with a close command, over the given reports
CloseInputsOver(mode, contact_lists, ray_lists) ==
    UNION {UNION {UNION {WithGraspInputs(mode, i3) : i3 \in WithAssistable(mode, i2)} :
                    i2 \in WithCandidates(mode, i1)} :
             i1 \in {[DefaultInput EXCEPT !.action = -1, !.con_results = c,
                                          !.ray_results = r] :
                        c \in contact_lists,
                        r \in (IF mode = "assisted" THEN ray_lists ELSE {{}})}}

CloseInputs(mode) == CloseInputsOver(mode, ContactLists, RayLists)

SelectionContactLists ==
    {c \in SUBSET {r \in ContactResults :
                        <<r.bodyUniqueIdB, r.linkIndexB>> \in SelectionPairs} :
        Cardinality(c) <= MaxSelectionContacts}
SelectionRayLists ==
    {r \in SUBSET SelectionPairs : Cardinality(r) <= MaxSelectionRayHits}
SelectionStickyInputs == CloseInputsOver("sticky", SelectionContactLists, {{}})
SelectionAssistedInputs ==
    CloseInputsOver("assisted", SelectionContactLists, SelectionRayLists)

OpenInputs == {[DefaultInput EXCEPT !.action = a] : a \in Commands \ {-1}}
StickyInputs == OpenInputs \cup CloseInputs("sticky")
AssistedInputs == OpenInputs \cup CloseInputs("assisted")
HoldInputs ==
    {[DefaultInput EXCEPT !.action = a, !.violation = v] :
        a \in Commands, v \in Violations}
WindowInputs == {[DefaultInput EXCEPT !.action = a] : a \in Commands}

-----------------------------------------------------------------------------
(* The keys of the record dump_state returns *)

Fields == {"obj_in_hand", "release_counter", "freeze_gripper",
           "freeze_joint_pos", "obj_cid", "obj_cid_params"}

\* "_ag_{}_<field>".format(arm)
KeyOf(arm, field) == "_ag_" \o arm \o "_" \o field

\* the name of the field in the older schema
LegacyKey(field) ==
    CASE field = "obj_in_hand" -> "object_in_hand"
      [] field = "release_counter" -> "release_counter"
      [] field = "freeze_gripper" -> "should_freeze_joints"
      [] field = "freeze_joint_pos" -> "freeze_vals"
      [] field = "obj_cid" -> "obj_cid"
      [] field = "obj_cid_params" -> "obj_cid_params"

-----------------------------------------------------------------------------
(* The state the operations work on, as one record *)

RobotState ==
    [_ag_data |-> _ag_data,
     _ag_freeze_joint_pos |-> _ag_freeze_joint_pos,
     _ag_obj_in_hand |-> _ag_obj_in_hand,
     _ag_obj_cid |-> _ag_obj_cid,
     _ag_obj_cid_params |-> _ag_obj_cid_params,
     _ag_freeze_gripper |-> _ag_freeze_gripper,
     _ag_release_counter |-> _ag_release_counter,
     heap |-> heap,
     constraints |-> constraints,
     coll_disabled |-> coll_disabled,
     saved |-> saved,
     err |-> err,
     resets |-> {},        \* the p.resetJointState calls of this call
     capped |-> FALSE]     \* the call needs more than MaxConstraints constraints

\* an exception leaves what was assigned before it and ends the call
Raise(s, e) == [s EXCEPT !.err = e]

\* the address of a new dict object
NewRef(s) ==
    CHOOSE a \in 1..(Cardinality(DOMAIN s.heap) + 1) :
        /\ a \notin DOMAIN s.heap
        /\ \A b \in 1..(a - 1) : b \in DOMAIN s.heap

HeapPut(s, a, d) ==
    [s EXCEPT !.heap = [x \in (DOMAIN s.heap) \cup {a} |->
                            IF x = a THEN d ELSE s.heap[x]]]

-----------------------------------------------------------------------------
(* The engine's calls that change it *)

\* set_coll_filter over the finger links of arm and every link of the target
set_coll_filter(s, target_body_id, arm, enable) ==
    [s EXCEPT !.coll_disabled =
        IF enable THEN @ \ {<<arm, target_body_id>>}
        ELSE @ \cup {<<arm, target_body_id>>}]

\* a variant of removeConstraint that leaves the constraint in the engine
RemoveNothing(s, cid, none_handle_ok) == s

\* p.removeConstraint(cid): whether the handle None is an error is the engine's
removeConstraint(s, cid, none_handle_ok) ==
    IF cid = None
    THEN IF none_handle_ok THEN s ELSE Raise(s, "TypeError")
    ELSE [s EXCEPT !.constraints =
            [c \in (DOMAIN s.constraints) \ {cid[1]} |-> s.constraints[c]]]

\* the constraint ids some name still holds: the robot's handles and those
\* of the record the caller keeps
HandlesHeld(s) ==
    {s._ag_obj_cid[a][1] : a \in {x \in ArmSet : s._ag_obj_cid[x] # None}}
    \cup (IF s.saved = None \/ "ManipulationRobot" \notin DOMAIN s.saved[1] THEN {}
          ELSE LET rd == s.saved[1]["ManipulationRobot"] IN
               {rd[k][1] : k \in {x \in DOMAIN rd :
                    /\ x \in {KeyOf(a, "obj_cid") : a \in ArmSet} \cup {LegacyKey("obj_cid")}
                    /\ rd[x] # None}})

\* the handle p.createConstraint returns next: an id of no constraint and of
\* no handle still held
NextConstraintId(s) ==
    LET used == (DOMAIN s.constraints) \cup HandlesHeld(s) IN
    CHOOSE c \in 1..(Cardinality(used) + 1) :
        c \notin used /\ \A b \in 1..(c - 1) : b \in used

\* p.createConstraint(...)
createConstraint(s, c) ==
    IF Cardinality(DOMAIN s.constraints) >= MaxConstraints
    THEN [s EXCEPT !.capped = TRUE]
    ELSE LET cid == NextConstraintId(s) IN
         [s EXCEPT !.constraints =
                [x \in (DOMAIN s.constraints) \cup {cid} |->
                    IF x = cid THEN c ELSE s.constraints[x]]]

changeConstraint(s, cid, max_force) ==
    [s EXCEPT !.constraints[cid[1]].maxForce = Some(max_force)]

-----------------------------------------------------------------------------
(* The grasp operations *)

\* a variant of _release_grasp that forgets to clear the handle
ReleaseKeepingHandle(s, arm, none_handle_ok) ==
    LET s1 == removeConstraint(s, s._ag_obj_cid[arm], none_handle_ok)
        a == NewRef(s1)
    IN  IF s1.err # "none" THEN s1
        ELSE [HeapPut(s1, a, EmptyDict) EXCEPT
                !._ag_data[arm] = None,
                !._ag_obj_cid_params[arm] = a,
                !._ag_freeze_gripper[arm] = Some(FALSE),
                !._ag_release_counter[arm] = Some(0)]

\* a variant of _release_grasp that lets go of the held object at once
ReleaseAtOnce(s, arm, none_handle_ok) ==
    LET s1 == removeConstraint(s, s._ag_obj_cid[arm], none_handle_ok)
        a == NewRef(s1)
    IN  IF s1.err # "none" THEN s1
        ELSE [HeapPut(s1, a, EmptyDict) EXCEPT
                !._ag_data[arm] = None,
                !._ag_obj_cid[arm] = None,
                !._ag_obj_cid_params[arm] = a,
                !._ag_obj_in_hand[arm] = None,
                !._ag_freeze_gripper[arm] = Some(FALSE)]

_release_grasp(s, arm, none_handle_ok) ==
    LET s1 == removeConstraint(s, s._ag_obj_cid[arm], none_handle_ok)
        a == NewRef(s1)
    IN  IF s1.err # "none" THEN s1
        ELSE [HeapPut(s1, a, EmptyDict) EXCEPT
                !._ag_data[arm] = None,
                !._ag_obj_cid[arm] = None,
                !._ag_obj_cid_params[arm] = a,
                !._ag_freeze_gripper[arm] = Some(FALSE),
                !._ag_release_counter[arm] = Some(0)]

\* a variant of _handle_release_window that ends the window at the first step
HandleReleaseWindowAtOnce(s, arm) ==
    [set_coll_filter(s, s._ag_obj_in_hand[arm][1], arm, TRUE) EXCEPT
        !._ag_obj_in_hand[arm] = None,
        !._ag_release_counter[arm] = None]

\* a variant of HandleReleaseWindowAt that ends the window one step late
HandleReleaseWindowLate(s, arm, timestep) ==
    LET counter == s._ag_release_counter[arm][1] + 1
        time_since_release == counter * timestep
    IN  IF time_since_release > RELEASE_WINDOW
        THEN [set_coll_filter(s, s._ag_obj_in_hand[arm][1], arm, TRUE) EXCEPT
                !._ag_obj_in_hand[arm] = None,
                !._ag_release_counter[arm] = None]
        ELSE [s EXCEPT !._ag_release_counter[arm] = Some(counter)]

\* _handle_release_window when self.simulator.render_timestep is timestep
HandleReleaseWindowAt(s, arm, timestep) ==
    LET counter == s._ag_release_counter[arm][1] + 1
        time_since_release == counter * timestep
    IN  IF time_since_release >= RELEASE_WINDOW
        THEN [set_coll_filter(s, s._ag_obj_in_hand[arm][1], arm, TRUE) EXCEPT
                !._ag_obj_in_hand[arm] = None,
                !._ag_release_counter[arm] = None]
        ELSE [s EXCEPT !._ag_release_counter[arm] = Some(counter)]

_handle_release_window(s, arm) == HandleReleaseWindowAt(s, arm, render_timestep)

\* the joint kind _establish_grasp chooses
GraspJointType(ag_link, in) ==
    IF /\ ag_link # -1
       /\ in.joint_type \in {"JOINT_REVOLUTE", "JOINT_PRISMATIC"}
       /\ in.scene_object = "fixed_base"
    THEN "JOINT_POINT2POINT"
    ELSE "JOINT_FIXED"

\* a variant of GraspMaxForce that gives every attachment the full assist force
GraspMaxForceUnscaled(joint_type) == ASSIST_FORCE

\* max_force of _establish_grasp
GraspMaxForce(joint_type) ==
    IF joint_type = "JOINT_FIXED" THEN ASSIST_FORCE
    ELSE (ASSIST_FORCE * ARTICULATED_ASSIST_FRACTION) \div 10

\* the loop over self.finger_joints[arm] that fills _ag_freeze_joint_pos in place
FreezeJointPos(s, arm, in) ==
    LET names == finger_joint_names[arm] IN
    [s EXCEPT !.heap[s._ag_freeze_joint_pos[arm]] =
        DictUpdate(@, [i \in DOMAIN names |->
                        <<StrKey(names[i]), in.joint_pos[names[i]]>>])]

_establish_grasp(s, arm, ag_data, in) ==
    IF ag_data = None THEN s
    ELSE
    LET ag_bid == ag_data[1]
        ag_link == ag_data[2]
        joint_type == GraspJointType(ag_link, in)
        force_data == ContactData(in.con_results)
        max_force == GraspMaxForce(joint_type)
        cid == Some(NextConstraintId(s))
        s1 == createConstraint(s,
                [parent |-> arm,
                 childBodyUniqueId |-> ag_bid,
                 childLinkIndex |-> ag_link,
                 jointType |-> joint_type,
                 parentFramePosition |-> "contact_in_eef_frame",
                 childFramePosition |-> "contact_in_child_frame",
                 maxForce |-> None])
    IN  IF ag_data \notin force_data THEN Raise(s, "AssertionError")
        ELSE IF s1.capped THEN s1
        ELSE
        LET s2 == changeConstraint(s1, cid, max_force)
            a == NewRef(s2)
            s3 == [HeapPut(s2, a,
                      <<<<"childBodyUniqueId", ag_bid>>,
                        <<"childLinkIndex", ag_link>>,
                        <<"jointType", joint_type>>,
                        <<"maxForce", max_force>>>>) EXCEPT
                    !._ag_obj_cid[arm] = cid,
                    !._ag_obj_cid_params[arm] = a,
                    !._ag_obj_in_hand[arm] = Some(ag_bid),
                    !._ag_freeze_gripper[arm] = Some(TRUE)]
        IN  FreezeJointPos(set_coll_filter(s3, ag_bid, arm, FALSE), arm, in)

\* a variant of GraspPointsDefined that looks at the start points only
StartPointsDefined(arm) == assisted_grasp_points[arm].start # None

\* the two asserts at the head of _find_gripper_raycast_collisions
GraspPointsDefined(arm) ==
    /\ assisted_grasp_points[arm].start # None
    /\ assisted_grasp_points[arm].end # None

ConstraintViolated(violation) == violation > CONSTRAINT_VIOLATION_THRESHOLD

\* a variant of HandleArm that takes the command 0 for a close command
HandleArmClosingAtZero(s, arm, in) ==
    LET applying_grasp == in.action <= 0
        releasing_grasp == in.action >= 0
    IN  IF _controllers[arm].mode # "binary" THEN Raise(s, "AssertionError")
        ELSE IF Truthy(s._ag_obj_in_hand[arm])
        THEN IF s._ag_release_counter[arm] # None
             THEN _handle_release_window(s, arm)
             ELSE IF s._ag_obj_cid[arm] = None /\ ~in.none_handle_ok
                  THEN Raise(s, "TypeError")
                  ELSE IF ConstraintViolated(in.violation) \/ releasing_grasp
                       THEN _release_grasp(s, arm, in.none_handle_ok)
                       ELSE s
        ELSE IF applying_grasp
             THEN LET found == _calculate_in_hand_object(grasping_mode, in) IN
                  IF grasping_mode = "assisted" /\ ~GraspPointsDefined(arm)
                  THEN Raise(s, "AssertionError")
                  ELSE IF found.raised # "none" THEN Raise(s, found.raised)
                  ELSE _establish_grasp([s EXCEPT !._ag_data[arm] = found.value],
                                        arm, found.value, in)
             ELSE s

\* the body of the loop of _handle_assisted_grasping, for one arm
HandleArm(s, arm, in) ==
    LET applying_grasp == in.action < 0
        releasing_grasp == in.action >= 0
    IN  IF _controllers[arm].mode # "binary" THEN Raise(s, "AssertionError")
        ELSE IF Truthy(s._ag_obj_in_hand[arm])
        THEN IF s._ag_release_counter[arm] # None
             THEN _handle_release_window(s, arm)
             ELSE IF s._ag_obj_cid[arm] = None /\ ~in.none_handle_ok
                  THEN Raise(s, "TypeError")
                  ELSE IF ConstraintViolated(in.violation) \/ releasing_grasp
                       THEN _release_grasp(s, arm, in.none_handle_ok)
                       ELSE s
        ELSE IF applying_grasp
             THEN LET found == _calculate_in_hand_object(grasping_mode, in) IN
                  IF grasping_mode = "assisted" /\ ~GraspPointsDefined(arm)
                  THEN Raise(s, "AssertionError")
                  ELSE IF found.raised # "none" THEN Raise(s, found.raised)
                  ELSE _establish_grasp([s EXCEPT !._ag_data[arm] = found.value],
                                        arm, found.value, in)
             ELSE s

RECURSIVE HandleArms(_, _, _)
HandleArms(s, arms, ins) ==
    IF arms = <<>> \/ s.err # "none" \/ s.capped THEN s
    ELSE HandleArms(HandleArm(s, Head(arms), ins[Head(arms)]), Tail(arms), ins)

_handle_assisted_grasping(s, ins) == HandleArms(s, arm_names, ins)

\* self._joints[joint_name] finds a joint by its name, a str
RECURSIVE ResetJoints(_, _)
ResetJoints(s, items) ==
    IF items = <<>> THEN s
    ELSE IF Head(items)[1][1] # "str" THEN Raise(s, "KeyError")
    ELSE ResetJoints([s EXCEPT !.resets = @ \cup {<<Head(items)[1][2], Head(items)[2]>>}],
                     Tail(items))

\* a variant of _freeze_gripper that resets no joint
FreezeNothing(s, arm) == s

_freeze_gripper(s, arm) == ResetJoints(s, s.heap[s._ag_freeze_joint_pos[arm]])

RECURSIVE FreezeArms(_, _)
FreezeArms(s, arms) ==
    IF arms = <<>> \/ s.err # "none" THEN s
    ELSE FreezeArms(IF TruthyFlag(s._ag_freeze_gripper[Head(arms)])
                    THEN _freeze_gripper(s, Head(arms)) ELSE s,
                    Tail(arms))

\* a variant of apply_action that handles grasps in every mode
ApplyActionInEveryMode(s, ins) ==
    FreezeArms(_handle_assisted_grasping(s, ins), arm_names)

apply_action(s, ins) ==
    FreezeArms(IF grasping_mode # "physical"
               THEN _handle_assisted_grasping(s, ins) ELSE s,
               arm_names)

\* _deploy_control, which the base class calls with the controls it computed:
\* the arms whose gripper control is replaced by velocity 0
_deploy_control(s) == {arm \in ArmSet : TruthyFlag(s._ag_freeze_gripper[arm])}

-----------------------------------------------------------------------------
(* dump_state and load_state.  A dump is a function from its keys; its      *)
(* "ManipulationRobot" entry maps field names to values, the two dicts      *)
(* among them by address: the record holds the very dict objects of the     *)
(* robot.                                                                   *)

FieldValue(s, arm, field) ==
    CASE field = "obj_in_hand" -> s._ag_obj_in_hand[arm]
      [] field = "release_counter" -> s._ag_release_counter[arm]
      [] field = "freeze_gripper" -> s._ag_freeze_gripper[arm]
      [] field = "freeze_joint_pos" -> s._ag_freeze_joint_pos[arm]
      [] field = "obj_cid" -> s._ag_obj_cid[arm]
      [] field = "obj_cid_params" -> s._ag_obj_cid_params[arm]

\* a variant of DumpArm that refreshes the pose whether or not the arm has a
\* constraint handle
DumpArmWithoutHandle(s, arm) ==
    [s EXCEPT !.heap[s._ag_obj_cid_params[arm]] =
        DictUpdate(@, <<<<"childFramePosition", <<"child_frame_pos", arm>>>>,
                        <<"childFrameOrientation", <<"child_frame_orn", arm>>>>>>)]

\* the recomputation of the child frame pose, for one arm: the pose is
\* relative to the end effector of that arm
DumpArm(s, arm) ==
    IF s._ag_obj_cid[arm] = None THEN s
    ELSE LET d == s.heap[s._ag_obj_cid_params[arm]] IN
         IF ~({"childBodyUniqueId", "childLinkIndex"} \subseteq DictKeys(d))
         THEN Raise(s, "KeyError")
         ELSE [s EXCEPT !.heap[s._ag_obj_cid_params[arm]] =
                DictUpdate(d, <<<<"childFramePosition", <<"child_frame_pos", arm>>>>,
                                <<"childFrameOrientation", <<"child_frame_orn", arm>>>>>>)]

RECURSIVE DumpArms(_, _)
DumpArms(s, arms) ==
    IF arms = <<>> \/ s.err # "none" THEN s
    ELSE DumpArms(DumpArm(s, Head(arms)), Tail(arms))

AgDump(s) ==
    [k \in {KeyOf(a, f) : a \in ArmSet, f \in Fields} |->
        LET af == CHOOSE x \in ArmSet \X Fields : KeyOf(x[1], x[2]) = k
        IN  FieldValue(s, af[1], af[2])]

\* returns [state, dump]
dump_state(s) ==
    IF grasping_mode = "physical" THEN [state |-> s, dump |-> <<>>]
    ELSE LET s1 == DumpArms(s, arm_names) IN
         [state |-> s1, dump |-> [ManipulationRobot |-> AgDump(s1)]]

\* a variant of LoadKey without the fallback to the older names
LoadKeyCurrentOnly(robot_dump, arm, field) == KeyOf(arm, field)

\* the key load_state reads a field from
LoadKey(robot_dump, arm, field) ==
    IF KeyOf(arm, field) \in DOMAIN robot_dump THEN KeyOf(arm, field)
    ELSE LegacyKey(field)

\* int(key) of a dict key
IntOfKeyFails(k) == k[1] = "str" /\ k[2] \notin IntLiterals

\* {int(key): val for key, val in d.items()}
RECURSIVE IntKeyed(_, _)
IntKeyed(acc, items) ==
    IF items = <<>> THEN acc
    ELSE IntKeyed(DictSet(acc, IntKey(Head(items)[1][2]), Head(items)[2]), Tail(items))

\* a variant of LoadConstraint that keeps the stored handle and creates nothing
LoadStoredHandle(s, arm, pd) == s

\* the constraint load_state creates from the stored parameters
LoadConstraint(s, arm, pd) ==
    LET cid == Some(NextConstraintId(s))
        s1 == createConstraint(s,
                [parent |-> arm,
                 childBodyUniqueId |-> DictGet(pd, "childBodyUniqueId"),
                 childLinkIndex |-> DictGet(pd, "childLinkIndex"),
                 jointType |-> DictGet(pd, "jointType"),
                 parentFramePosition |-> "origin",
                 childFramePosition |-> DictGet(pd, "childFramePosition"),
                 maxForce |-> None])
    IN  IF ~({"childBodyUniqueId", "childLinkIndex", "jointType",
              "childFramePosition", "childFrameOrientation"} \subseteq DictKeys(pd))
        THEN Raise(s, "KeyError")
        ELSE IF s1.capped THEN s1
        ELSE LET s2 == [s1 EXCEPT !._ag_obj_cid[arm] = cid] IN
             IF "maxForce" \notin DictKeys(pd) THEN Raise(s2, "KeyError")
             ELSE changeConstraint(s2, cid, DictGet(pd, "maxForce"))

\* the body of the loop of load_state, for one arm
LoadArm(s, arm, dump) ==
    LET s1 == IF s._ag_obj_cid[arm] # None
              THEN removeConstraint(s, s._ag_obj_cid[arm], TRUE) ELSE s
        s2 == IF s1._ag_obj_in_hand[arm] # None
              THEN set_coll_filter(s1, s1._ag_obj_in_hand[arm][1], arm, TRUE) ELSE s1
    IN
    IF "ManipulationRobot" \notin DOMAIN dump THEN Raise(s2, "KeyError")
    ELSE
    LET robot_dump == dump["ManipulationRobot"]
        k_obj == LoadKey(robot_dump, arm, "obj_in_hand")
        k_rel == LoadKey(robot_dump, arm, "release_counter")
        k_frz == LoadKey(robot_dump, arm, "freeze_gripper")
        k_pos == LoadKey(robot_dump, arm, "freeze_joint_pos")
        k_cid == LoadKey(robot_dump, arm, "obj_cid")
        k_par == LoadKey(robot_dump, arm, "obj_cid_params")
    IN
    IF k_obj \notin DOMAIN robot_dump THEN Raise(s2, "KeyError")
    ELSE LET s3 == [s2 EXCEPT !._ag_obj_in_hand[arm] = robot_dump[k_obj]] IN
    IF k_rel \notin DOMAIN robot_dump THEN Raise(s3, "KeyError")
    ELSE LET s4 == [s3 EXCEPT !._ag_release_counter[arm] = robot_dump[k_rel]] IN
    IF k_frz \notin DOMAIN robot_dump THEN Raise(s4, "KeyError")
    ELSE LET s5 == [s4 EXCEPT !._ag_freeze_gripper[arm] = robot_dump[k_frz]] IN
    IF k_pos \notin DOMAIN robot_dump THEN Raise(s5, "KeyError")
    ELSE LET items == s5.heap[robot_dump[k_pos]] IN
    IF \E i \in DOMAIN items : IntOfKeyFails(items[i][1]) THEN Raise(s5, "ValueError")
    ELSE LET a == NewRef(s5)
             s6 == [HeapPut(s5, a, IntKeyed(EmptyDict, items)) EXCEPT
                        !._ag_freeze_joint_pos[arm] = a]
         IN
    IF k_cid \notin DOMAIN robot_dump THEN Raise(s6, "KeyError")
    ELSE LET s7 == [s6 EXCEPT !._ag_obj_cid[arm] = robot_dump[k_cid]] IN
    IF k_par \notin DOMAIN robot_dump THEN Raise(s7, "KeyError")
    ELSE LET s8 == [s7 EXCEPT !._ag_obj_cid_params[arm] = robot_dump[k_par]]
             s9 == IF s8._ag_obj_cid[arm] # None
                   THEN LoadConstraint(s8, arm, s8.heap[robot_dump[k_par]]) ELSE s8
         IN
    IF s9.err # "none" \/ s9.capped THEN s9
    ELSE IF s9._ag_obj_in_hand[arm] # None
         THEN set_coll_filter(s9, s9._ag_obj_in_hand[arm][1], arm, FALSE)
         ELSE s9

RECURSIVE LoadArms(_, _, _)
LoadArms(s, arms, dump) ==
    IF arms = <<>> \/ s.err # "none" \/ s.capped THEN s
    ELSE LoadArms(LoadArm(s, Head(arms), dump), Tail(arms), dump)

load_state(s, dump) ==
    IF grasping_mode = "physical" THEN s ELSE LoadArms(s, arm_names, dump)

\* the record of the older schema with the values of dump: the fields in
\* legacy_fields stand once, under their old names, with the values of the
\* first arm (the older schema knows one gripper), the others as in dump
LegacyRecord(dump, legacy_fields) ==
    LET rd == dump["ManipulationRobot"]
        dropped == {KeyOf(a, f) : a \in ArmSet, f \in legacy_fields}
        added == {LegacyKey(f) : f \in legacy_fields}
    IN  [ManipulationRobot |->
            [k \in ((DOMAIN rd) \ dropped) \cup added |->
                IF k \in added
                THEN rd[KeyOf(arm_names[1], CHOOSE f \in legacy_fields : LegacyKey(f) = k)]
                ELSE rd[k]]]

\* the record is of the current schema
CurrentSchema(dump) ==
    {KeyOf(a, f) : a \in ArmSet, f \in Fields} \subseteq DOMAIN dump["ManipulationRobot"]

\* a record from which the caller's storage lost the entry of one key
RecordLacking(dump, k) ==
    [ManipulationRobot |->
        [x \in (DOMAIN dump["ManipulationRobot"]) \ {k} |-> dump["ManipulationRobot"][x]]]

-----------------------------------------------------------------------------
(* Dict objects no name refers to any more are dropped, and the addresses   *)
(* of the others are renumbered in the order the names are listed, so that  *)
(* one arrangement of objects is one state.  Constraint ids are handles the *)
(* program only stores and passes back: they are renumbered the same way,   *)
(* the handles held first, then the constraints no handle refers to.        *)

\* the keys of a dump's "ManipulationRobot" entry that hold a dict
RefKeySeq ==
    [i \in 1..(2 * n_arms) |->
        KeyOf(arm_names[(i + 1) \div 2],
              IF i % 2 = 1 THEN "freeze_joint_pos" ELSE "obj_cid_params")]
    \o <<LegacyKey("freeze_joint_pos"), LegacyKey("obj_cid_params")>>

HasAgDump(sv) == sv # None /\ "ManipulationRobot" \in DOMAIN sv[1]

RefSlots(s) ==
    [i \in 1..(2 * n_arms) |->
        IF i % 2 = 1 THEN s._ag_freeze_joint_pos[arm_names[(i + 1) \div 2]]
        ELSE s._ag_obj_cid_params[arm_names[(i + 1) \div 2]]]
    \o (IF HasAgDump(s.saved)
        THEN LET rd == s.saved[1]["ManipulationRobot"]
                 ks == SelectSeq(RefKeySeq, LAMBDA k : k \in DOMAIN rd)
             IN  [i \in DOMAIN ks |-> rd[ks[i]]]
        ELSE <<>>)

\* the keys of a dump's "ManipulationRobot" entry that hold a constraint handle
CidKeySeq ==
    [i \in 1..n_arms |-> KeyOf(arm_names[i], "obj_cid")] \o <<LegacyKey("obj_cid")>>

CidSlots(s) ==
    LET own == [i \in 1..n_arms |-> s._ag_obj_cid[arm_names[i]]]
        kept == IF HasAgDump(s.saved)
                THEN LET rd == s.saved[1]["ManipulationRobot"]
                         ks == SelectSeq(CidKeySeq, LAMBDA k : k \in DOMAIN rd)
                     IN  [i \in DOMAIN ks |-> rd[ks[i]]]
                ELSE <<>>
        set == SelectSeq(own \o kept, LAMBDA h : h # None)
    IN  [i \in DOMAIN set |-> set[i][1]]

Canon(s) ==
    LET slots == RefSlots(s)
        cslots == CidSlots(s)
        held == {cslots[i] : i \in DOMAIN cslots}
        CFirst(c) == CHOOSE i \in DOMAIN cslots :
                        cslots[i] = c /\ \A j \in 1..(i - 1) : cslots[j] # c
        CRank(c) == IF c \in held
                    THEN Cardinality({cslots[j] : j \in 1..CFirst(c)})
                    ELSE Cardinality(held)
                         + Cardinality({x \in (DOMAIN s.constraints) \ held : x <= c})
        CHandle(h) == IF h = None THEN None ELSE Some(CRank(h[1]))
        cidKeys == {CidKeySeq[i] : i \in DOMAIN CidKeySeq}
        refs == {slots[i] : i \in DOMAIN slots}
        FirstIdx(r) == CHOOSE i \in DOMAIN slots :
                          slots[i] = r /\ \A j \in 1..(i - 1) : slots[j] # r
        Rank(r) == Cardinality({slots[j] : j \in 1..FirstIdx(r)})
        rdOld == s.saved[1]["ManipulationRobot"]
        refKeys == {RefKeySeq[i] : i \in DOMAIN RefKeySeq}
    IN  [s EXCEPT
            !.heap = [a \in 1..Cardinality(refs) |->
                        s.heap[CHOOSE r \in refs : Rank(r) = a]],
            !._ag_freeze_joint_pos = [a \in ArmSet |-> Rank(s._ag_freeze_joint_pos[a])],
            !._ag_obj_cid_params = [a \in ArmSet |-> Rank(s._ag_obj_cid_params[a])],
            !._ag_obj_cid = [a \in ArmSet |-> CHandle(s._ag_obj_cid[a])],
            !.constraints = [n \in {CRank(c) : c \in DOMAIN s.constraints} |->
                                s.constraints[CHOOSE c \in DOMAIN s.constraints :
                                                CRank(c) = n]],
            !.saved = IF HasAgDump(s.saved)
                      THEN Some([ManipulationRobot |->
                                [k \in DOMAIN rdOld |->
                                    IF k \in refKeys THEN Rank(rdOld[k])
                                    ELSE IF k \in cidKeys THEN CHandle(rdOld[k])
                                    ELSE rdOld[k]]])
                      ELSE s.saved]

\* a call that touched no dict reference and no constraint leaves the
\* numbering as it was
Settle(s) ==
    IF /\ s.heap = heap
       /\ s.constraints = constraints
       /\ s._ag_obj_cid = _ag_obj_cid
       /\ s._ag_obj_cid_params = _ag_obj_cid_params
       /\ s._ag_freeze_joint_pos = _ag_freeze_joint_pos
       /\ s.saved = saved
    THEN s
    ELSE Canon(s)

-----------------------------------------------------------------------------
(* The gripper controllers and is_grasping.  A controller is a record of   *)
(* its class, its mode, its motor type, its limit tolerance and the control *)
(* it computed last (None before the first).  A gripper has two fingers;    *)
(* positions, velocities and controls are pairs in thousandths.             *)

\* _default_gripper_parallel_jaw_controller_configs
DefaultGripperController ==
    [name |-> "ParallelJawGripperController", mode |-> "binary",
     motor_type |-> "position", limit_tolerance |-> 1, control |-> None]

ControllerNames == {"NullGripperController", "JointController",
                    "ParallelJawGripperController", "OtherController"}
ControllerModes == {"binary", "independent"}
MotorTypes == {"position", "velocity", "torque"}
LimitTolerances == {1, POS_TOLERANCE}

\* the controllers a robot in physical mode is configured with; only the
\* parallel jaw controller has the mode and the motor type varied
GripperControllers ==
    {[DefaultGripperController EXCEPT !.name = n] :
        n \in ControllerNames \ {"ParallelJawGripperController"}}
    \cup {[DefaultGripperController EXCEPT !.mode = m, !.motor_type = mt,
                                           !.limit_tolerance = lt] :
            m \in ControllerModes, mt \in MotorTypes, lt \in LimitTolerances}

\* self.joint_lower_limits / joint_upper_limits of the finger joints
joint_lower_limit == 0
joint_upper_limit == 6

\* what a finger joint reads and what a controller commands for it
FingerPositions == {0, 2, 3, 5, 7}
FingerVelocities == {-10, 0, 9}
ControlValues == {0, 3, 10}
Controls == ControlValues \X ControlValues

\* the readings of one is_grasping call
GripperReadings ==
    [finger_pos : FingerPositions \X FingerPositions,
     finger_vel : FingerVelocities \X FingerVelocities]

Abs(x) == IF x < 0 THEN -x ELSE x

RECURSIVE SumAbs(_)
SumAbs(v) == IF v = <<>> THEN 0 ELSE Abs(Head(v)) + SumAbs(Tail(v))

\* np.mean(np.abs(v)) < tolerance, for a non-empty v
MeanAbsBelow(v, tolerance) == SumAbs(v) < tolerance * Len(v)

Minus(u, v) == [i \in DOMAIN u |-> u[i] - v[i]]

\* a variant of CommandReached that takes only an exact match as reached
CommandReachedExactly(finger_pos, control) == finger_pos = control

\* np.mean(np.abs(finger_pos - control)) < POS_TOLERANCE
CommandReached(finger_pos, control) ==
    MeanAbsBelow(Minus(finger_pos, control), POS_TOLERANCE)

\* np.mean(np.abs(control)) < VEL_TOLERANCE
CommandNearZero(control) == MeanAbsBelow(control, VEL_TOLERANCE)

\* a variant of MovingGripperState that takes a gripper away from its limits
\* for a grasp whatever the finger velocities are
MovingGripperAwayFromLimits(g) ==
    LET Sum(v) == v[1] + v[2]
        valid_grasp_pos ==
            /\ Sum(g.finger_pos) - 2 * joint_lower_limit > POS_TOLERANCE * 2
            /\ 2 * joint_upper_limit - Sum(g.finger_pos) > POS_TOLERANCE * 2
    IN  IF \E i \in DOMAIN g.finger_pos :
                g.finger_pos[i] < joint_lower_limit \/ g.finger_pos[i] > joint_upper_limit
        THEN [raised |-> "AssertionError", value |-> None]
        ELSE [raised |-> "none",
              value |-> Some(IF valid_grasp_pos
                             THEN IsGraspingState.TRUE ELSE IsGraspingState.FALSE)]

\* the last branch of is_grasping: the command still intends to move the gripper
MovingGripperState(g) ==
    LET dist_from_lower_limit == [i \in DOMAIN g.finger_pos |->
                                    g.finger_pos[i] - joint_lower_limit]
        dist_from_upper_limit == [i \in DOMAIN g.finger_pos |->
                                    joint_upper_limit - g.finger_pos[i]]
        Sum(v) == v[1] + v[2]
        valid_grasp_pos ==
            /\ Sum(dist_from_lower_limit) > POS_TOLERANCE * Len(g.finger_pos)
            /\ Sum(dist_from_upper_limit) > POS_TOLERANCE * Len(g.finger_pos)
        valid_grasp_vel == \A i \in DOMAIN g.finger_vel : Abs(g.finger_vel[i]) < VEL_TOLERANCE
    IN  IF \E i \in DOMAIN g.finger_pos :
                g.finger_pos[i] < joint_lower_limit \/ g.finger_pos[i] > joint_upper_limit
        THEN [raised |-> "AssertionError", value |-> None]
        ELSE [raised |-> "none",
              value |-> Some(IF valid_grasp_pos /\ valid_grasp_vel
                             THEN IsGraspingState.TRUE ELSE IsGraspingState.FALSE)]

\* is_grasping in physical mode, for a parallel jaw controller
ParallelJawGraspingState(gripper_controller, g) ==
    LET control == gripper_controller.control IN
    IF gripper_controller.mode = "independent"
    THEN [raised |-> "none", value |-> Some(IsGraspingState.UNKNOWN)]
    ELSE IF control = None
    THEN [raised |-> "none", value |-> Some(IsGraspingState.FALSE)]
    ELSE IF \E i \in DOMAIN control[1] : control[1][i] # control[1][1]
    THEN [raised |-> "AssertionError", value |-> None]
    ELSE IF ~(POS_TOLERANCE > gripper_controller.limit_tolerance)
    THEN [raised |-> "AssertionError", value |-> None]
    ELSE IF /\ gripper_controller.motor_type = "position"
            /\ CommandReached(g.finger_pos, control[1])
    THEN [raised |-> "none", value |-> Some(IsGraspingState.UNKNOWN)]
    ELSE IF /\ gripper_controller.motor_type \in {"velocity", "torque"}
            /\ CommandNearZero(control[1])
    THEN [raised |-> "none", value |-> Some(IsGraspingState.UNKNOWN)]
    ELSE MovingGripperState(g)

\* a variant of is_grasping that takes a held object for a grasp during the
\* release window too
IsGraspingWhileReleasing(s, arm, candidate_obj, g) ==
    [raised |-> "none",
     value |-> Some(IF s._ag_obj_in_hand[arm] # None
                    THEN IsGraspingState.TRUE ELSE IsGraspingState.FALSE)]

\* is_grasping(arm, candidate_obj): returns [raised, value]; candidate_obj is
\* None or <<what the held body id is compared with>>
is_grasping(s, arm, candidate_obj, g) ==
    IF grasping_mode # "physical"
    THEN LET is_grasping_obj ==
                IF candidate_obj = None THEN s._ag_obj_in_hand[arm] # None
                ELSE s._ag_obj_in_hand[arm] = candidate_obj
         IN  [raised |-> "none",
              value |-> Some(IF is_grasping_obj /\ s._ag_release_counter[arm] = None
                             THEN IsGraspingState.TRUE ELSE IsGraspingState.FALSE)]
    ELSE LET gripper_controller == _controllers[arm] IN
         CASE gripper_controller.name = "NullGripperController" ->
                [raised |-> "none", value |-> Some(IsGraspingState.FALSE)]
           [] gripper_controller.name = "JointController" ->
                [raised |-> "none", value |-> Some(IsGraspingState.UNKNOWN)]
           [] gripper_controller.name = "ParallelJawGripperController" ->
                ParallelJawGraspingState(gripper_controller, g)
           [] OTHER -> [raised |-> "Exception", value |-> None]

-----------------------------------------------------------------------------
(* HeatSourceOrSink, the heat source state of an object.  The object is a   *)
(* record of what the state reads from it: the position of its heating      *)
(* element link (None without such a link), ToggledOn and Open.             *)

HeatPositions == {"at_p", "at_q"}
HeatObjects ==
    [link_position : {None} \cup {Some(x) : x \in HeatPositions},
     toggled_on : BOOLEAN, open : BOOLEAN]

\* HeatSourceOrSink(obj, requires_toggled_on=..., requires_closed=..., requires_inside=...)
HeatSourceOrSink(obj, requires_toggled_on, requires_closed, requires_inside) ==
    [obj |-> obj,
     requires_toggled_on |-> requires_toggled_on,
     requires_closed |-> requires_closed,
     requires_inside |-> requires_inside,
     status |-> None,
     position |-> None]

\* a variant of _compute_state_and_position that never looks at Open
ComputeWithoutOpen(h) ==
    LET heating_element_position == h.obj.link_position IN
    IF ~h.requires_inside /\ heating_element_position = None THEN <<FALSE, None>>
    ELSE IF h.requires_toggled_on /\ ~h.obj.toggled_on THEN <<FALSE, None>>
    ELSE <<TRUE, IF ~h.requires_inside THEN heating_element_position ELSE None>>

_compute_state_and_position(h) ==
    LET heating_element_position == h.obj.link_position IN
    IF ~h.requires_inside /\ heating_element_position = None THEN <<FALSE, None>>
    ELSE IF h.requires_toggled_on /\ ~h.obj.toggled_on THEN <<FALSE, None>>
    ELSE IF h.requires_closed /\ h.obj.open THEN <<FALSE, None>>
    ELSE <<TRUE, IF ~h.requires_inside THEN heating_element_position ELSE None>>

_update(h) ==
    LET r == _compute_state_and_position(h) IN
    [h EXCEPT !.status = Some(r[1]), !.position = r[2]]

_get_value(h) == <<h.status, h.position>>

\* returns [raised, state]
_set_value(h, new_value) == [raised |-> "NotImplementedError", state |-> h]

-----------------------------------------------------------------------------
(* The state machine *)

AG_MODES == {"physical", "assisted", "sticky"}

\* Idle, Holding or Releasing, by the held object and the release counter
Lifecycle(s, arm) ==
    IF s._ag_obj_in_hand[arm] = None THEN "Idle"
    ELSE IF s._ag_release_counter[arm] = None THEN "Holding"
    ELSE "Releasing"

\* the inputs apply_action reads for one arm in state s
InputsRead(s, arm) ==
    IF grasping_mode = "physical" THEN WindowInputs
    ELSE IF Truthy(s._ag_obj_in_hand[arm])
         THEN IF s._ag_release_counter[arm] # None THEN WindowInputs ELSE HoldInputs
         ELSE IF grasping_mode = "assisted" THEN AssistedInputs ELSE StickyInputs

\* the positions of the finger joints, read when the step establishes a grasp
JointPosRead(s, arm, in) ==
    IF /\ grasping_mode # "physical"
       /\ ~Truthy(s._ag_obj_in_hand[arm])
       /\ in.action < 0
       /\ _calculate_in_hand_object(grasping_mode, in).value # None
    THEN {[in EXCEPT !.joint_pos = jp] :
            jp \in [{finger_joint_names[arm][i] : i \in DOMAIN finger_joint_names[arm]}
                        -> JointPositions]}
    ELSE {in}

Commit(t) ==
    /\ _ag_data' = t._ag_data
    /\ _ag_freeze_joint_pos' = t._ag_freeze_joint_pos
    /\ _ag_obj_in_hand' = t._ag_obj_in_hand
    /\ _ag_obj_cid' = t._ag_obj_cid
    /\ _ag_obj_cid_params' = t._ag_obj_cid_params
    /\ _ag_freeze_gripper' = t._ag_freeze_gripper
    /\ _ag_release_counter' = t._ag_release_counter
    /\ heap' = t.heap
    /\ constraints' = t.constraints
    /\ coll_disabled' = t.coll_disabled
    /\ saved' = t.saved
    /\ err' = t.err
    /\ UNCHANGED <<n_arms, grasping_mode, finger_joint_names,
                    _controllers, is_grasping_state, assisted_grasp_points,
                    heat_source, simple_env>>

\* __init__: the grasp state of a new robot with n arms
NewRobot(n) ==
    /\ n_arms = n
    /\ grasping_mode \in AG_MODES
    /\ finger_joint_names \in [ArmSet -> FingerJointNameChoices]
    /\ _ag_data = [a \in ArmSet |-> None]
    /\ _ag_freeze_joint_pos =
            [a \in ArmSet |-> 2 * (CHOOSE i \in 1..n_arms : arm_names[i] = a) - 1]
    /\ _ag_obj_in_hand = [a \in ArmSet |-> None]
    /\ _ag_obj_cid = [a \in ArmSet |-> None]
    /\ _ag_obj_cid_params =
            [a \in ArmSet |-> 2 * (CHOOSE i \in 1..n_arms : arm_names[i] = a)]
    /\ _ag_freeze_gripper = [a \in ArmSet |-> None]
    /\ _ag_release_counter = [a \in ArmSet |-> None]
    /\ heap = [a \in 1..(2 * n_arms) |-> EmptyDict]
    /\ constraints = <<>>
    /\ coll_disabled = {}
    /\ saved = None
    /\ err = "none"
    /\ release_calls = 0
    /\ is_grasping_state = [a \in ArmSet |-> None]

\* every gripper has the default parallel jaw controller, no control issued
DefaultControllers == _controllers = [a \in ArmSet |-> DefaultGripperController]

\* every gripper has its start and end points defined by the robot model
DefinedGraspPoints ==
    assisted_grasp_points =
        [a \in ArmSet |-> [start |-> Some("points"), end |-> Some("points")]]

\* a robot with one arm (n_arms of the base class returns 1)
Init == NewRobot(1) /\ DefaultControllers /\ DefinedGraspPoints /\ heat_source = None /\ simple_env = None

\* robot.apply_action(action), with what the engine reports during the call
ApplyAction ==
    /\ err = "none"
    /\ \E i1 \in InputsRead(RobotState, arm_names[1]) :
       \E i2 \in (IF n_arms = 1 THEN {i1} ELSE InputsRead(RobotState, arm_names[n_arms])) :
       \E j1 \in JointPosRead(RobotState, arm_names[1], i1) :
       \E j2 \in (IF n_arms = 1 THEN {j1}
                  ELSE JointPosRead(RobotState, arm_names[n_arms], i2)) :
        LET ins == [a \in ArmSet |-> IF a = arm_names[1] THEN j1 ELSE j2]
            t == Settle(apply_action(RobotState, ins))
        IN  ~t.capped /\ Commit(t) /\ UNCHANGED release_calls

\* record = robot.dump_state(); the caller keeps the record or drops it
DumpState ==
    /\ err = "none"
    /\ \E keep \in BOOLEAN :
        LET r == dump_state(RobotState)
            t == Settle(IF keep /\ r.state.err = "none"
                       THEN [r.state EXCEPT !.saved = Some(r.dump)] ELSE r.state)
        IN  Commit(t) /\ UNCHANGED release_calls

\* robot.load_state(record) of the record the caller kept
LoadState ==
    /\ err = "none"
    /\ saved # None
    /\ LET t == Settle(load_state(RobotState, saved[1])) IN
        ~t.capped /\ Commit(t) /\ UNCHANGED release_calls

Next == ApplyAction \/ DumpState \/ LoadState

Spec == Init /\ [][Next]_vars

\* robot.load_state(record) of a record of the older schema that holds the
\* values of the record the caller kept, and that the caller keeps from now on
LoadLegacyState ==
    /\ err = "none"
    /\ HasAgDump(saved)
    /\ CurrentSchema(saved[1])
    /\ LET rec == LegacyRecord(saved[1], Fields)
           t == Settle(load_state([RobotState EXCEPT !.saved = Some(rec)], rec))
       IN  ~t.capped /\ Commit(t) /\ UNCHANGED release_calls

NextLegacy == ApplyAction \/ DumpState \/ LoadState \/ LoadLegacyState

\* the robot the records of the older schema are studied on: one gripper,
\* sticky mode
InitLegacy == Init /\ grasping_mode = "sticky"

SpecLegacy == InitLegacy /\ [][NextLegacy]_vars

\* the engine reports no contact of a finger of the arm with a body whose
\* collision with these fingers is disabled
NoFilteredContact(s, arm, in) ==
    \A c \in in.con_results : <<arm, c.bodyUniqueIdB>> \notin s.coll_disabled

\* the one body within reach of the grippers of a robot with two arms, a
\* link of an articulated object: a gripper touches it with all fingers or
\* touches nothing
SharedPair == <<1, 0>>
TwoArmContactLists ==
    {{}, {[linkIndexA |-> f, bodyUniqueIdB |-> SharedPair[1],
           linkIndexB |-> SharedPair[2]] : f \in finger_link_ids}}

\* the inputs a step of the robot with two arms reads for one arm: the
\* commands -1 and 0, the shared body not registered in the scene
TwoArmInputs(s, arm) ==
    {in \in InputsRead(s, arm) :
        /\ in.action \in {-1, 0}
        /\ in.con_results \in TwoArmContactLists
        /\ in.joint_type = DefaultInput.joint_type
        /\ in.scene_object = DefaultInput.scene_object
        /\ NoFilteredContact(s, arm, in)}

\* robot.apply_action(action) on the robot with two arms
ApplyActionTwoArms ==
    /\ err = "none"
    /\ n_arms = 2
    /\ \E i1 \in TwoArmInputs(RobotState, arm_names[1]) :
       \E i2 \in TwoArmInputs(RobotState, arm_names[2]) :
       \E j1 \in JointPosRead(RobotState, arm_names[1], i1) :
       \E j2 \in JointPosRead(RobotState, arm_names[2], i2) :
        LET t == Settle(apply_action(RobotState,
                    [a \in ArmSet |-> IF a = arm_names[1] THEN j1 ELSE j2]))
        IN  ~t.capped /\ Commit(t) /\ UNCHANGED release_calls

NextTwoArms == ApplyActionTwoArms \/ DumpState \/ LoadState \/ LoadLegacyState

\* a robot whose model overrides n_arms to 2, in sticky mode, no finger
\* joint recorded
InitTwoArms ==
    /\ NewRobot(2)
    /\ DefaultControllers
    /\ DefinedGraspPoints
    /\ heat_source = None /\ simple_env = None
    /\ grasping_mode = "sticky"
    /\ finger_joint_names = [a \in ArmSet |-> <<>>]

SpecTwoArms == InitTwoArms /\ [][NextTwoArms]_vars

\* the grasp fields, the engine and what the caller keeps
GraspVars == <<n_arms, grasping_mode, finger_joint_names, _ag_data,
               _ag_freeze_joint_pos, _ag_obj_in_hand, _ag_obj_cid, _ag_obj_cid_params,
               _ag_freeze_gripper, _ag_release_counter, heap, constraints,
               coll_disabled, saved, release_calls>>

\* super().apply_action(action) in physical mode: the gripper controller of
\* every arm computes its control from the action
StepControllers ==
    /\ err = "none"
    /\ grasping_mode = "physical"
    /\ \E control \in [ArmSet -> Controls] :
        _controllers' = [a \in ArmSet |-> [_controllers[a] EXCEPT !.control = Some(control[a])]]
    /\ UNCHANGED <<GraspVars, err, is_grasping_state, assisted_grasp_points, heat_source, simple_env>>

\* robot.is_grasping(arm), with what the finger joints read at the call
IsGrasping ==
    /\ err = "none"
    /\ \E arm \in ArmSet, g \in GripperReadings :
        LET r == is_grasping(RobotState, arm, None, g) IN
        /\ err' = r.raised
        /\ is_grasping_state' =
                IF r.raised = "none" THEN [is_grasping_state EXCEPT ![arm] = r.value]
                ELSE is_grasping_state
    /\ UNCHANGED <<GraspVars, _controllers, assisted_grasp_points, heat_source, simple_env>>

NextIsGrasping == StepControllers \/ IsGrasping

\* a one-arm robot in physical mode, with any of the gripper controllers
InitIsGrasping ==
    /\ NewRobot(1)
    /\ grasping_mode = "physical"
    /\ finger_joint_names = [a \in ArmSet |-> <<"finger_joint">>]
    /\ _controllers \in [ArmSet -> GripperControllers]
    /\ DefinedGraspPoints
    /\ heat_source = None /\ simple_env = None

SpecIsGrasping == InitIsGrasping /\ [][NextIsGrasping]_vars

\* the inputs a step reads when the candidate search of an Idle arm is given
\* the reports of SelectionPairs
SelectionInputsRead(s, arm) ==
    IF s._ag_obj_in_hand[arm] = None
    THEN OpenInputs \cup (IF grasping_mode = "assisted" THEN SelectionAssistedInputs
                          ELSE SelectionStickyInputs)
    ELSE InputsRead(s, arm)

\* robot.apply_action(action) with those reports
ApplyActionSelection ==
    /\ err = "none"
    /\ \E i \in SelectionInputsRead(RobotState, arm_names[1]) :
       \E in \in JointPosRead(RobotState, arm_names[1], i) :
        LET t == Settle(apply_action(RobotState, [a \in ArmSet |-> in]))
        IN  ~t.capped /\ Commit(t) /\ UNCHANGED release_calls

NextSelection == ApplyActionSelection

\* a one-arm robot that handles grasps itself
InitSelection == Init /\ grasping_mode # "physical"

SpecSelection == InitSelection /\ [][NextSelection]_vars

\* assert_valid_key(key, valid_keys, name) of igibson.utils.python_utils
assert_valid_key(key, valid_keys) ==
    IF key \in valid_keys THEN "none" ELSE "AssertionError"

\* an attribute __init__ never came to assign
Unset == "unset"

\* __init__(grasping_mode=requested_mode) of a robot with n arms
__init__(requested_mode, n) ==
    IF assert_valid_key(requested_mode, AG_MODES) = "none"
    THEN NewRobot(n) /\ grasping_mode = requested_mode
    ELSE /\ n_arms = n
         /\ err = "AssertionError"
         /\ grasping_mode = Unset
         /\ _ag_data = Unset
         /\ _ag_freeze_joint_pos = Unset
         /\ _ag_obj_in_hand = Unset
         /\ _ag_obj_cid = Unset
         /\ _ag_obj_cid_params = Unset
         /\ _ag_freeze_gripper = Unset
         /\ _ag_release_counter = Unset
         /\ heap = <<>>
         /\ constraints = <<>>
         /\ coll_disabled = {}
         /\ saved = None
         /\ release_calls = 0
         /\ is_grasping_state = [a \in ArmSet |-> None]

\* the configurations a robot can be given: a grasping mode that is one of
\* AG_MODES or not, per gripper the default controller, one in independent
\* mode or one of another class, and start and end points defined or not
RequestedModes == AG_MODES \cup {"magnetic"}
ConfigControllers ==
    {DefaultGripperController,
     [DefaultGripperController EXCEPT !.mode = "independent"],
     [DefaultGripperController EXCEPT !.name = "OtherController"]}
GraspPointChoices == [start : {None, Some("points")}, end : {None, Some("points")}]

InitConfig ==
    /\ \E requested_mode \in RequestedModes : __init__(requested_mode, 1)
    /\ finger_joint_names = [a \in ArmSet |-> <<"finger_joint">>]
    /\ _controllers \in [ArmSet -> ConfigControllers]
    /\ assisted_grasp_points \in [ArmSet -> GraspPointChoices]
    /\ heat_source = None /\ simple_env = None

NextConfig == ApplyAction \/ StepControllers \/ IsGrasping

SpecConfig == InitConfig /\ [][NextConfig]_vars

\* apply_action called step after step on a sticky-mode robot and nothing
\* else, a further step always taken in the end
NextSteps == ApplyAction
InitSteps == Init /\ grasping_mode = "sticky"
SpecSteps == InitSteps /\ [][NextSteps]_vars /\ WF_vars(ApplyAction)

\* apply_action called step after step and nothing else, in any mode
NextApply == ApplyAction
InitApply == Init
SpecApply == InitApply /\ [][NextApply]_vars

\* the variables of the robot
RobotVars == <<GraspVars, _controllers, is_grasping_state, assisted_grasp_points>>

\* the object is toggled, opened, closed or moved
HeatObjectChanges ==
    /\ err = "none"
    /\ heat_source # None
    /\ \E obj \in HeatObjects :
        /\ (obj.link_position = None) <=> (heat_source[1].obj.link_position = None)
        /\ heat_source' = Some([heat_source[1] EXCEPT !.obj = obj])
    /\ UNCHANGED <<RobotVars, err, simple_env>>

\* the simulator's step calls _update
HeatUpdate ==
    /\ err = "none"
    /\ heat_source # None
    /\ heat_source' = Some(_update(heat_source[1]))
    /\ UNCHANGED <<RobotVars, err, simple_env>>

\* a caller sets the state's value
HeatSetValue ==
    /\ err = "none"
    /\ heat_source # None
    /\ \E new_value \in BOOLEAN :
        LET r == _set_value(heat_source[1], new_value) IN
        /\ err' = r.raised
        /\ heat_source' = Some(r.state)
    /\ UNCHANGED <<RobotVars, simple_env>>

NextHeat == HeatObjectChanges \/ HeatUpdate \/ HeatSetValue

\* a scene with one heat source of any configuration, beside an idle robot
InitHeat ==
    /\ NewRobot(1)
    /\ DefaultControllers
    /\ DefinedGraspPoints
    /\ grasping_mode = "physical"
    /\ finger_joint_names = [a \in ArmSet |-> <<>>]
    /\ \E obj \in HeatObjects, rt, rc, ri \in BOOLEAN :
        heat_source = Some(HeatSourceOrSink(obj, rt, rc, ri))
    /\ simple_env = None

SpecHeat == InitHeat /\ [][NextHeat]_vars

-----------------------------------------------------------------------------
(* SimpleEnv, the gym environment around the physics and the visuals        *)
(* renderer.  The object is a record of its attributes: an attribute the    *)
(* constructor did not get to assign is FALSE (None for the displayer), and *)
(* reading it raises.  p_channel is the depth-render child process.  ended, *)
(* raised and returned tell of the last call: whether it invoked _end, the  *)
(* exception that left it, and what it returned.                            *)

\* the states the physics renderer reports: dicts with a distance_to_target
PhysicsStates == {<<<<"distance_to_target", d>>>> : d \in 0..MaxDistanceToTarget}

\* the calls inside the try block of __init__, in their order
ConstructionCalls(debug) ==
    <<"_setupVisuals", "renderOffScreenInitialPose", "_setupPhysics", "initialize">>
    \o (IF debug THEN <<"renderToScreenSetup", "RewardDisplayer">> ELSE <<>>)

\* the calls of _step that are made on other objects
StepCalls == {"physics_render", "add_reward", "visuals_render"}

\* self.p_channel.kill()
_end(e) == [e EXCEPT !.p_channel = "killed", !.ended = TRUE]

\* _getReward of _setupRewardFunc
_getReward(state_old, state_new) ==
    IF state_old = None \/ state_old[1] = EmptyDict THEN 0
    ELSE 5 * (DictGet(state_old[1], "distance_to_target")
              - DictGet(state_new, "distance_to_target"))

\* SimpleEnv(debug=debug), when the call named fails raises ("none": no call does)
SimpleEnv(debug, fails) ==
    LET calls == ConstructionCalls(debug)
        n == IF \E i \in DOMAIN calls : calls[i] = fails
             THEN CHOOSE i \in DOMAIN calls : calls[i] = fails
             ELSE Len(calls) + 1
        Done(name) == \E i \in 1..(n - 1) : calls[i] = name
        e == [debug_mode |-> debug,
              p_channel |-> "running",
              state_old |-> None,
              r_visuals |-> Done("_setupVisuals"),
              r_physics |-> Done("_setupPhysics"),
              r_displayer |-> IF Done("RewardDisplayer") THEN Some(<<>>) ELSE None,
              reward_func |-> debug /\ n > Len(calls),
              ended |-> FALSE,
              raised |-> "none",
              returned |-> None]
    IN  IF n <= Len(calls) THEN _end(e) ELSE e

\* the except block of _step: print(e) reads a name that was never bound, so
\* self._end() is not reached
StepExcept(e) == [e EXCEPT !.raised = "NameError"]

\* env._step(action), when the physics reports state and the call named
\* out.fails raises
_step(e, out) ==
    LET e0 == [e EXCEPT !.ended = FALSE, !.raised = "none", !.returned = None]
        reward == _getReward(e0.state_old, out.state)
    IN
    IF ~e0.r_physics \/ out.fails = "physics_render" THEN StepExcept(e0)
    ELSE IF ~e0.reward_func THEN StepExcept(e0)
    ELSE IF ~e0.debug_mode
    THEN LET e1 == [e0 EXCEPT !.state_old = Some(out.state)] IN
         IF ~e1.r_visuals \/ out.fails = "visuals_render" THEN StepExcept(e1)
         ELSE [e1 EXCEPT !.returned = Some(<<"visuals", reward>>)]
    ELSE IF e0.r_displayer = None \/ out.fails = "add_reward" THEN StepExcept(e0)
    ELSE LET e1 == [e0 EXCEPT !.r_displayer = Some(<<reward>>),
                              !.state_old = Some(out.state)] IN
         IF ~e1.r_visuals \/ out.fails = "visuals_render" THEN StepExcept(e1)
         ELSE [e1 EXCEPT !.returned = Some(<<"visuals", reward>>)]

\* what one call of _step meets
StepOutcomes == [state : PhysicsStates, fails : StepCalls \cup {"none"}]

\* env._step(action)
EnvStep ==
    /\ err = "none"
    /\ simple_env # None
    /\ \E out \in StepOutcomes :
        LET r == _step(simple_env[1], out) IN
        /\ simple_env' = Some(r)
        /\ err' = r.raised
    /\ UNCHANGED <<RobotVars, heat_source>>

\* env._end(), as the main loop calls it when it is interrupted
EnvEnd ==
    /\ err = "none"
    /\ simple_env # None
    /\ simple_env' = Some(_end(simple_env[1]))
    /\ UNCHANGED <<RobotVars, err, heat_source>>

NextEnv == EnvStep \/ EnvEnd

\* an environment constructed in either mode, whatever its construction met,
\* beside an idle robot
InitEnv ==
    /\ NewRobot(1)
    /\ DefaultControllers
    /\ DefinedGraspPoints
    /\ grasping_mode = "physical"
    /\ finger_joint_names = [a \in ArmSet |-> <<>>]
    /\ heat_source = None
    /\ \E debug \in BOOLEAN :
       \E fails \in {ConstructionCalls(debug)[i] : i \in DOMAIN ConstructionCalls(debug)}
                        \cup {"none"} :
            simple_env = Some(SimpleEnv(debug, fails))

SpecEnv == InitEnv /\ [][NextEnv]_vars

\* robot._release_grasp(arm) called by other code of the robot: whether the
\* engine raises on the handle None of an arm without a constraint is the engine's
ReleaseGrasp ==
    /\ err = "none"
    /\ grasping_mode # "physical"
    /\ release_calls < MaxReleaseCalls
    /\ release_calls' = release_calls + 1
    /\ \E arm \in ArmSet, none_handle_ok \in BOOLEAN :
        Commit(Settle(_release_grasp(RobotState, arm, none_handle_ok)))

NextRelease == ApplyAction \/ DumpState \/ LoadState \/ ReleaseGrasp

\* the robot the outside calls of _release_grasp are studied on: sticky mode,
\* one finger joint with a URDF name
InitRelease ==
    /\ Init
    /\ grasping_mode = "sticky"
    /\ finger_joint_names = [a \in ArmSet |-> <<"finger_joint">>]

SpecRelease == InitRelease /\ [][NextRelease]_vars

-----------------------------------------------------------------------------
(* What the properties below speak of *)

\* the call apply_action(action) in which every arm is given the readings in
Step(in) == apply_action(RobotState, [a \in ArmSet |-> in])

\* the grasp state of an arm, the dicts by their contents
GraspState(s, arm) ==
    [heldObject |-> s._ag_obj_in_hand[arm],
     constraintHandle |-> s._ag_obj_cid[arm],
     constraintParams |-> s.heap[s._ag_obj_cid_params[arm]],
     releaseCounter |-> s._ag_release_counter[arm],
     freezeGripper |-> s._ag_freeze_gripper[arm]]

\* a call is about to be made on a robot that handles grasps itself
Assisting == err = "none" /\ grasping_mode # "physical"

\* the finger links of the gripper that touch the pair
FingersOn(in, pair) ==
    {c.linkIndexA : c \in {x \in in.con_results :
        <<x.bodyUniqueIdB, x.linkIndexB>> = pair}}

\* the pairs that are neither the id -1 of no body nor the end effector's body
NotSelf(pairs) == {pr \in pairs : pr[1] # -1 /\ pr[1] # eef_body_id}

ContactPairsOf(in) ==
    NotSelf({<<c.bodyUniqueIdB, c.linkIndexB>> : c \in in.con_results})

-----------------------------------------------------------------------------
(* C1 *)

-----------------------------------------------------------------------------
(* C2 *)

\* C2: for every arm, after any calls of apply_action, _release_grasp,
\* dump_state and load_state that returned, a release counter that is set
\* implies a held object that is set.
C2_CounterImpliesHeld ==
    err = "none" =>
        \A arm \in ArmSet :
            _ag_release_counter[arm] # None => _ag_obj_in_hand[arm] # None

-----------------------------------------------------------------------------
(* C3 *)

\* C3: for an arm in Holding, whatever body it holds, a step with an open
\* command (>= 0) leaves it Releasing with the release counter 0 and the
\* object still held; for an arm in Releasing a step counts the counter up,
\* and the first step at which counter x step duration reaches the release
\* window leaves it Idle, the collision filter of the held body re-enabled,
\* the held object and the counter cleared.
C3_OpenReleasesThenWindowEnds ==
    Assisting =>
        \A arm \in ArmSet :
        \A i \in InputsRead(RobotState, arm) :
        \A in \in JointPosRead(RobotState, arm, i) :
            LET t == Step(in)
                body == _ag_obj_in_hand[arm][1]
                counter == _ag_release_counter[arm][1] + 1
            IN  /\ (Lifecycle(RobotState, arm) = "Holding" /\ in.action >= 0) =>
                    /\ Lifecycle(t, arm) = "Releasing"
                    /\ t._ag_release_counter[arm] = Some(0)
                    /\ t._ag_obj_in_hand[arm] = _ag_obj_in_hand[arm]
                /\ Lifecycle(RobotState, arm) = "Releasing" =>
                    IF counter * render_timestep >= RELEASE_WINDOW
                    THEN /\ Lifecycle(t, arm) = "Idle"
                         /\ t._ag_release_counter[arm] = None
                         /\ <<arm, body>> \notin t.coll_disabled
                    ELSE /\ Lifecycle(t, arm) = "Releasing"
                         /\ t._ag_release_counter[arm] = Some(counter)
                         /\ t._ag_obj_in_hand[arm] = _ag_obj_in_hand[arm]

-----------------------------------------------------------------------------
(* C4 *)

\* C4: for an arm in Holding and a step with a close command (< 0): if the
\* violation of the arm's constraint exceeds the threshold the arm is
\* Releasing after the step, and if it does not (a violation equal to the
\* threshold included) the arm is still Holding.
C4_ViolationReleasesDespiteClose ==
    Assisting =>
        \A arm \in ArmSet :
        \A i \in InputsRead(RobotState, arm) :
        \A in \in JointPosRead(RobotState, arm, i) :
        \A v \in Violations :
            (Lifecycle(RobotState, arm) = "Holding" /\ in.action < 0) =>
                LET t == Step([in EXCEPT !.violation = v]) IN
                IF v > CONSTRAINT_VIOLATION_THRESHOLD
                THEN Lifecycle(t, arm) = "Releasing"
                ELSE Lifecycle(t, arm) = "Holding"

-----------------------------------------------------------------------------
(* C5 *)

\* the nearest candidate of the step is a body that is no body of the robot,
\* touched by at least two finger links of the arm and reported assistable
C5_Graspable(in) ==
    /\ in.action < 0
    /\ in.first # None
    /\ in.first[1] \notin get_body_ids
    /\ Cardinality(FingersOn(in, in.first) \cap finger_link_ids) >= 2
    /\ in.can_assisted_grasp

\* the arm holds the pair B as the claim describes it
C5_HoldingB(t, arm, B, in) ==
    LET handle == t._ag_obj_cid[arm]
        params == t.heap[t._ag_obj_cid_params[arm]]
        frozen == t.heap[t._ag_freeze_joint_pos[arm]]
        names == finger_joint_names[arm]
    IN  /\ Lifecycle(t, arm) = "Holding"
        /\ t._ag_obj_in_hand[arm] = Some(B[1])
        /\ handle # None
        /\ handle[1] \in DOMAIN t.constraints
        /\ t.constraints[handle[1]].childBodyUniqueId = B[1]
        /\ t.constraints[handle[1]].childLinkIndex = B[2]
        /\ t._ag_freeze_gripper[arm] = Some(TRUE)
        /\ {"childBodyUniqueId", "childLinkIndex"} \subseteq DictKeys(params)
        /\ DictGet(params, "childBodyUniqueId") = B[1]
        /\ DictGet(params, "childLinkIndex") = B[2]
        /\ \A n \in DOMAIN names :
            /\ StrKey(names[n]) \in DictKeys(frozen)
            /\ DictGet(frozen, StrKey(names[n])) = in.joint_pos[names[n]]
        /\ <<arm, B[1]>> \in t.coll_disabled

\* C5: in sticky mode, for an Idle arm and a step with a close command: if
\* the nearest contacted body B is no body of the robot, is touched by at
\* least two finger links of the arm and is assistable, then at the end of
\* that step the arm is Holding B: the held object is B, a handle of a live
\* constraint on B exists, the freeze flag is true, the constraint parameters
\* record B's body and link, the finger joint positions of the step are in
\* the frozen positions, and collision of B with the fingers is disabled.
C5_StickyCloseGrasps ==
    (Assisting /\ grasping_mode = "sticky") =>
        \A arm \in ArmSet :
        \A i \in InputsRead(RobotState, arm) :
            (Lifecycle(RobotState, arm) = "Idle" /\ C5_Graspable(i)) =>
                \A in \in JointPosRead(RobotState, arm, i) :
                    LET t == Step(in) IN
                    t.capped \/ C5_HoldingB(t, arm, in.first, in)

\* the state a close step of an Idle arm in sticky mode has just produced:
\* the arm holds the articulated body by the only constraint there is, no
\* record was ever taken (so neither dump_state, which adds the child frame
\* to the parameters, nor load_state has run), the finger joint position 1
\* is frozen, collision with the body is disabled
C5_JustGrasped ==
    /\ Assisting
    /\ grasping_mode = "sticky"
    /\ saved = None
    /\ \E arm \in ArmSet :
        LET params == heap[_ag_obj_cid_params[arm]]
            frozen == heap[_ag_freeze_joint_pos[arm]]
        IN  /\ Lifecycle(RobotState, arm) = "Holding"
            /\ _ag_obj_in_hand[arm] = Some(1)
            /\ _ag_data[arm] = <<1, 0>>
            /\ _ag_obj_cid[arm] # None
            /\ DOMAIN constraints = {_ag_obj_cid[arm][1]}
            /\ constraints[_ag_obj_cid[arm][1]].childBodyUniqueId = 1
            /\ _ag_freeze_gripper[arm] = Some(TRUE)
            /\ DictKeys(params) =
                    {"childBodyUniqueId", "childLinkIndex", "jointType", "maxForce"}
            /\ DictGet(params, "childBodyUniqueId") = 1
            /\ DictGet(params, "childLinkIndex") = 0
            /\ frozen = <<<<StrKey("finger_joint"), 1>>>>
            /\ coll_disabled = {<<arm, 1>>}

-----------------------------------------------------------------------------
(* C6 *)

\* C6: for an Idle arm and a step with a close command, if the nearest
\* candidate is touched by fewer than two finger links of the arm, candidate
\* selection returns none without raising and after the step the arm is
\* Idle with the same held object, handle, constraint parameters, release
\* counter and freeze flag, the same constraints and the same collision
\* filters.
C6_OneFingerIsNoGrasp ==
    Assisting =>
        \A arm \in ArmSet :
        \A i \in InputsRead(RobotState, arm) :
        \A in \in JointPosRead(RobotState, arm, i) :
            (/\ Lifecycle(RobotState, arm) = "Idle"
             /\ in.action < 0
             /\ in.first # None
             /\ Cardinality(FingersOn(in, in.first) \cap finger_link_ids) < 2) =>
                LET found == _calculate_in_hand_object(grasping_mode, in)
                    t == Step(in)
                IN  /\ found.raised = "none"
                    /\ found.value = None
                    /\ t.err = "none"
                    /\ Lifecycle(t, arm) = "Idle"
                    /\ GraspState(t, arm) = GraspState(RobotState, arm)
                    /\ t.constraints = constraints
                    /\ t.coll_disabled = coll_disabled

-----------------------------------------------------------------------------
(* C7 *)

-----------------------------------------------------------------------------
(* C8 *)

\* C8: for an arm in Holding, load_state(dump_state()) completes without an
\* error and leaves a live constraint on the same child body and link, of
\* the same joint kind and with the same max force as before, and collision
\* of the held body with the arm's fingers disabled.
C8_DumpThenLoadKeepsAttachment ==
    Assisting =>
        \A arm \in ArmSet :
            Lifecycle(RobotState, arm) = "Holding" =>
                LET r == dump_state(RobotState)
                    t == load_state(r.state, r.dump)
                    before == constraints[_ag_obj_cid[arm][1]]
                    after == t.constraints[t._ag_obj_cid[arm][1]]
                IN  /\ r.state.err = "none"
                    /\ t.err = "none"
                    /\ t._ag_obj_cid[arm] # None
                    /\ t._ag_obj_cid[arm][1] \in DOMAIN t.constraints
                    /\ after.childBodyUniqueId = before.childBodyUniqueId
                    /\ after.childLinkIndex = before.childLinkIndex
                    /\ after.jointType = before.jointType
                    /\ after.maxForce = before.maxForce
                    /\ <<arm, _ag_obj_in_hand[arm][1]>> \in t.coll_disabled

-----------------------------------------------------------------------------
(* C9 *)

\* C9: a call of _release_grasp on an arm that is Idle does not raise and
\* leaves the held object, the handle, the constraint parameters, the
\* release counter and the freeze flag as they were.
C9_ReleaseOnIdleIsNoOp ==
    [][(release_calls' # release_calls) =>
        \A arm \in ArmSet :
            _ag_obj_in_hand[arm] = None =>
                /\ err' = "none"
                /\ _ag_obj_in_hand'[arm] = _ag_obj_in_hand[arm]
                /\ _ag_obj_cid'[arm] = _ag_obj_cid[arm]
                /\ heap'[_ag_obj_cid_params'[arm]] = heap[_ag_obj_cid_params[arm]]
                /\ _ag_release_counter'[arm] = _ag_release_counter[arm]
                /\ _ag_freeze_gripper'[arm] = _ag_freeze_gripper[arm]]_vars

-----------------------------------------------------------------------------
(* C10 *)

\* C10: for an arm in Holding, whatever body it holds, a step with a close
\* command and no constraint violation changes nothing: the result of the
\* last candidate selection, the constraints, the held object, the handle,
\* the constraint parameters, the release counter and the freeze flag are as
\* before.
C10_HoldingCloseIsNoOp ==
    Assisting =>
        \A arm \in ArmSet :
        \A i \in InputsRead(RobotState, arm) :
        \A in \in JointPosRead(RobotState, arm, i) :
            (/\ Lifecycle(RobotState, arm) = "Holding"
             /\ in.action < 0
             /\ in.violation <= CONSTRAINT_VIOLATION_THRESHOLD) =>
                LET t == Step(in) IN
                /\ t._ag_data = _ag_data
                /\ t.constraints = constraints
                /\ GraspState(t, arm) = GraspState(RobotState, arm)

-----------------------------------------------------------------------------
(* C11 *)

\* every frozen position of the arm was applied to its joint in the call
C11_Driven(t, arm) ==
    LET frozen == t.heap[t._ag_freeze_joint_pos[arm]] IN
    \A n \in DOMAIN frozen :
        /\ frozen[n][1][1] = "str"
        /\ <<frozen[n][1][2], frozen[n][2]>> \in t.resets

-----------------------------------------------------------------------------
(* C12 *)

-----------------------------------------------------------------------------
(* C13 *)

\* the grasp state of every arm, the constraints and the collision filters
\* after a call are those before it
C13_Untouched(t) ==
    /\ \A arm \in ArmSet :
        /\ GraspState(t, arm) = GraspState(RobotState, arm)
        /\ t.heap[t._ag_freeze_joint_pos[arm]] = heap[_ag_freeze_joint_pos[arm]]
    /\ t.constraints = constraints
    /\ t.coll_disabled = coll_disabled

\* C13: a step that aborts on a candidate that is a body of the robot, and a
\* load_state that aborts on a record lacking a field, leave the grasp state
\* of every arm, the constraints and the collision filters as they were
\* before the call.
C13_AbortLeavesNoMutation ==
    Assisting =>
        /\ \A arm \in ArmSet :
           \A i \in InputsRead(RobotState, arm) :
           \A in \in JointPosRead(RobotState, arm, i) :
                Step(in).err = "AssertionError" => C13_Untouched(Step(in))
        /\ HasAgDump(saved) =>
            \A k \in DOMAIN saved[1]["ManipulationRobot"] :
                LET t == load_state(RobotState, RecordLacking(saved[1], k)) IN
                t.err = "KeyError" => C13_Untouched(t)

-----------------------------------------------------------------------------
(* C14 *)

\* the constraints of the engine whose parent is the arm's end effector
C14_AttachmentsOf(s, arm) == {c \in DOMAIN s.constraints : s.constraints[c].parent = arm}

\* what C14 says of one arm after load_state of the record rd returned t
C14_Restored(t, arm, rd) ==
    LET held == rd[KeyOf(arm, "obj_in_hand")]
        params == heap[rd[KeyOf(arm, "obj_cid_params")]]
        live == C14_AttachmentsOf(t, arm)
    IN  /\ t._ag_obj_in_hand[arm] = held
        /\ t._ag_release_counter[arm] = rd[KeyOf(arm, "release_counter")]
        /\ t._ag_freeze_gripper[arm] = rd[KeyOf(arm, "freeze_gripper")]
        /\ IF rd[KeyOf(arm, "obj_cid")] = None
           THEN live = {} /\ t._ag_obj_cid[arm] = None
           ELSE /\ t._ag_obj_cid[arm] # None
                /\ live = {t._ag_obj_cid[arm][1]}
                /\ LET c == t.constraints[t._ag_obj_cid[arm][1]] IN
                    /\ c.childBodyUniqueId = DictGet(params, "childBodyUniqueId")
                    /\ c.childLinkIndex = DictGet(params, "childLinkIndex")
                    /\ c.jointType = DictGet(params, "jointType")
                    /\ c.maxForce = Some(DictGet(params, "maxForce"))
        /\ held # None => <<arm, held[1]>> \in t.coll_disabled
        /\ (_ag_obj_in_hand[arm] # None /\ _ag_obj_in_hand[arm] # held) =>
                <<arm, _ag_obj_in_hand[arm][1]>> \notin t.coll_disabled

\* C14: after a load_state of a dumped record that returned, whatever the
\* arm's state before: the arm's earlier constraints are gone; the held
\* object, the release counter and the freeze flag are the record's; the arm
\* has a live constraint exactly when the record has a handle, on the
\* record's child body and link, of its joint kind and max force; collision
\* with the fingers is disabled for the record's held object and enabled for
\* the body held before if it is another.
C14_LoadReplacesAttachment ==
    (Assisting /\ HasAgDump(saved)) =>
        LET t == load_state(RobotState, saved[1]) IN
        (t.err = "none" /\ ~t.capped) =>
            \A arm \in ArmSet :
                C14_Restored(t, arm, saved[1]["ManipulationRobot"])

-----------------------------------------------------------------------------
(* C15 *)

\* the value the kept record holds for a field of the one arm, under the
\* old name or the current one
C15_ValueOf(rd, f) ==
    IF LegacyKey(f) \in DOMAIN rd THEN rd[LegacyKey(f)] ELSE rd[KeyOf(arm_names[1], f)]

\* the kept record's values under the current names
C15_Current(rd) ==
    [ManipulationRobot |->
        [k \in {KeyOf(arm_names[1], f) : f \in Fields} |->
            C15_ValueOf(rd, CHOOSE f \in Fields : KeyOf(arm_names[1], f) = k)]]

\* the current record with, besides, other values under the old names of
\* the fields in legacy_fields
C15_WithStaleLegacy(cur, legacy_fields) ==
    LET rd == cur["ManipulationRobot"]
        added == {LegacyKey(f) : f \in legacy_fields}
    IN  [ManipulationRobot |->
            [k \in (DOMAIN rd) \cup added |->
                IF k \in DOMAIN rd THEN rd[k]
                ELSE IF k \in {LegacyKey("freeze_joint_pos"), LegacyKey("obj_cid_params")}
                     THEN _ag_freeze_joint_pos[arm_names[1]]
                     ELSE None]]

\* C15: on a robot with one gripper, for every set of fields written under
\* their old names, load_state of the record leaves the robot exactly as
\* load_state of the record with the same values under the current names
\* does (grasp state, constraints, collision filters, outcome); and where
\* both names are present the value under the current name is the one used.
C15_LegacyRecordLoadsAlike ==
    (Assisting /\ n_arms = 1 /\ HasAgDump(saved)) =>
        LET cur == C15_Current(saved[1]["ManipulationRobot"])
            t == load_state(RobotState, cur)
        IN  \A legacy_fields \in SUBSET Fields :
                /\ load_state(RobotState, LegacyRecord(cur, legacy_fields)) = t
                /\ load_state(RobotState, C15_WithStaleLegacy(cur, legacy_fields)) = t

\* the record the caller keeps is of the older schema and has been loaded:
\* the arm holds the record's body by a live constraint on it, with the
\* record's parameters and collision with that body disabled
C15_LegacyRecordRestored ==
    /\ Assisting
    /\ HasAgDump(saved)
    /\ DOMAIN saved[1]["ManipulationRobot"] = {LegacyKey(f) : f \in Fields}
    /\ LET rd == saved[1]["ManipulationRobot"]
           arm == arm_names[1]
       IN  /\ rd["object_in_hand"] = Some(1)
           /\ _ag_obj_in_hand[arm] = Some(1)
           /\ _ag_obj_cid[arm] # None
           /\ _ag_obj_cid_params[arm] = rd["obj_cid_params"]
           /\ constraints[_ag_obj_cid[arm][1]].childBodyUniqueId = 1
           /\ constraints[_ag_obj_cid[arm][1]].parentFramePosition = "origin"
           /\ <<arm, 1>> \in coll_disabled

-----------------------------------------------------------------------------
(* C16 *)

\* the grasp state of an arm with the frozen joint positions, the dicts by
\* their contents
C16_GraspState(s, arm) ==
    [state |-> GraspState(s, arm),
     frozenJointPositions |-> s.heap[s._ag_freeze_joint_pos[arm]]]

\* C16: on a robot with two arms, after any calls of apply_action,
\* dump_state and load_state (records of the older schema included), what
\* changes the grasp state of an arm A changes no field of the grasp state
\* of another arm B: neither the grasp handling of one step for A, whatever
\* A's command and the engine's readings, nor the refresh of A's constraint
\* parameters in dump_state.
C16_ArmsShareNoGraspState ==
    (Assisting /\ n_arms = 2) =>
        \A A \in ArmSet : \A B \in ArmSet \ {A} :
            /\ \A i \in TwoArmInputs(RobotState, A) :
               \A in \in JointPosRead(RobotState, A, i) :
                    C16_GraspState(HandleArm(RobotState, A, in), B)
                        = C16_GraspState(RobotState, B)
            /\ C16_GraspState(DumpArm(RobotState, A), B) = C16_GraspState(RobotState, B)

-----------------------------------------------------------------------------
(* C17 *)

\* C17: on a robot with two arms, after any steps in which the engine reports
\* no contact of a finger with a body whose collision with the fingers of
\* that arm is disabled (no record kept, so no load_state yet), no body is
\* the held object of two arms.
C17_NoBodyHeldByTwoArms ==
    (n_arms = 2 /\ saved = None) =>
        \A A \in ArmSet : \A B \in ArmSet \ {A} :
            _ag_obj_in_hand[A] # None => _ag_obj_in_hand[A] # _ag_obj_in_hand[B]

-----------------------------------------------------------------------------
(* C18 *)

\* what is_grasping returns for the arm with these readings, candidate None
C18_Returned(arm, g) == is_grasping(RobotState, arm, None, g)

\* the position command is within the position tolerance of the two fingers
C18_Reached(c, g) ==
    /\ c.motor_type = "position"
    /\ Abs(g.finger_pos[1] - c.control[1][1]) + Abs(g.finger_pos[2] - c.control[1][2])
            < 2 * POS_TOLERANCE

\* the velocity or torque command has a mean magnitude below the tolerance
C18_NearZero(c) ==
    /\ c.motor_type \in {"velocity", "torque"}
    /\ Abs(c.control[1][1]) + Abs(c.control[1][2]) < 2 * VEL_TOLERANCE

\* C18 as stated: in physical mode is_grasping returns UNKNOWN for a parallel
\* jaw controller in independent mode, for one with no command issued yet,
\* for a position command already reached and for a velocity or torque
\* command near zero.
C18_UnknownWithoutReliableSignal ==
    \A arm \in ArmSet : \A g \in GripperReadings :
        LET c == _controllers[arm]
            r == C18_Returned(arm, g)
        IN  (/\ grasping_mode = "physical"
             /\ c.name = "ParallelJawGripperController"
             /\ r.raised = "none"
             /\ \/ c.mode = "independent"
                \/ c.control = None
                \/ c.control # None /\ (C18_Reached(c, g) \/ C18_NearZero(c)))
            => r.value = Some(IsGraspingState.UNKNOWN)

\* C18 amended: in physical mode, whenever is_grasping returns for a parallel
\* jaw controller, it returns UNKNOWN exactly when the controller is in
\* independent mode or a command has been issued and is a position command
\* already reached or a velocity or torque command near zero; with no command
\* issued yet and not in independent mode it returns FALSE.
C18_UnknownExceptUnissuedCommand ==
    \A arm \in ArmSet : \A g \in GripperReadings :
        LET c == _controllers[arm]
            r == C18_Returned(arm, g)
        IN  (/\ grasping_mode = "physical"
             /\ c.name = "ParallelJawGripperController"
             /\ r.raised = "none")
            => /\ r.value = Some(IsGraspingState.UNKNOWN)
                    <=> \/ c.mode = "independent"
                        \/ c.control # None /\ (C18_Reached(c, g) \/ C18_NearZero(c))
               /\ (c.mode # "independent" /\ c.control = None)
                    => r.value = Some(IsGraspingState.FALSE)

\* is_grasping has returned FALSE for a parallel jaw controller that is not in
\* independent mode and has had no command issued
C18_FalseBeforeFirstCommand ==
    \E arm \in ArmSet :
        /\ grasping_mode = "physical"
        /\ _controllers[arm].name = "ParallelJawGripperController"
        /\ _controllers[arm].mode # "independent"
        /\ _controllers[arm].control = None
        /\ is_grasping_state[arm] = Some(IsGraspingState.FALSE)

-----------------------------------------------------------------------------
(* C19 *)

\* C19: for an Idle arm and a step with a close command, if the body of the
\* nearest candidate is one of the robot's own bodies, candidate selection
\* returns none and raises nothing, and after the step the arm is Idle with
\* the same grasp state.
C19_OwnBodyIsRejectedQuietly ==
    Assisting =>
        \A arm \in ArmSet :
        \A i \in InputsRead(RobotState, arm) :
        \A in \in JointPosRead(RobotState, arm, i) :
            (/\ Lifecycle(RobotState, arm) = "Idle"
             /\ in.action < 0
             /\ in.first # None
             /\ in.first[1] \in get_body_ids) =>
                LET found == _calculate_in_hand_object(grasping_mode, in)
                    t == Step(in)
                IN  /\ found = [raised |-> "none", value |-> None]
                    /\ t.err = "none"
                    /\ Lifecycle(t, arm) = "Idle"
                    /\ GraspState(t, arm) = GraspState(RobotState, arm)

-----------------------------------------------------------------------------
(* C20 *)

\* C20: when a step with a close command establishes a grasp on the candidate
\* (body, link), the constraint created is point-to-point exactly when link
\* is not -1, the joint of the link is revolute or prismatic and the body is
\* a registered scene object with a true fixed_base, and fixed otherwise; its
\* max force is 500 when fixed and 350 when point-to-point; and
\* constraintParams stores the body, the link, that joint kind and that force.
C20_JointKindAndMaxForce ==
    Assisting =>
        \A arm \in ArmSet :
        \A i \in InputsRead(RobotState, arm) :
        \A in \in JointPosRead(RobotState, arm, i) :
            LET found == _calculate_in_hand_object(grasping_mode, in)
                t == Step(in)
            IN  (/\ Lifecycle(RobotState, arm) = "Idle"
                 /\ in.action < 0
                 /\ found.raised = "none"
                 /\ found.value # None
                 /\ t.err = "none"
                 /\ ~t.capped) =>
                    LET ag == found.value
                        p2p == /\ ag[2] # -1
                               /\ in.joint_type \in {"JOINT_REVOLUTE", "JOINT_PRISMATIC"}
                               /\ in.scene_object = "fixed_base"
                        kind == IF p2p THEN "JOINT_POINT2POINT" ELSE "JOINT_FIXED"
                        force == IF p2p THEN 350 ELSE 500
                        params == t.heap[t._ag_obj_cid_params[arm]]
                    IN  /\ t._ag_obj_cid[arm] # None
                        /\ t._ag_obj_cid[arm][1] \in DOMAIN t.constraints
                        /\ LET c == t.constraints[t._ag_obj_cid[arm][1]] IN
                            /\ c.childBodyUniqueId = ag[1]
                            /\ c.childLinkIndex = ag[2]
                            /\ c.jointType = kind
                            /\ c.maxForce = Some(force)
                        /\ DictGet(params, "childBodyUniqueId") = ag[1]
                        /\ DictGet(params, "childLinkIndex") = ag[2]
                        /\ DictGet(params, "jointType") = kind
                        /\ DictGet(params, "maxForce") = force

\* an arm holds a body by a point-to-point constraint of max force 350
C20_HoldingByPointToPoint ==
    \E arm \in ArmSet :
        /\ err = "none"
        /\ _ag_obj_in_hand[arm] # None
        /\ _ag_release_counter[arm] = None
        /\ _ag_obj_cid[arm] # None
        /\ _ag_obj_cid[arm][1] \in DOMAIN constraints
        /\ constraints[_ag_obj_cid[arm][1]].jointType = "JOINT_POINT2POINT"
        /\ constraints[_ag_obj_cid[arm][1]].maxForce = Some(350)
        /\ DictGet(heap[_ag_obj_cid_params[arm]], "jointType") = "JOINT_POINT2POINT"

-----------------------------------------------------------------------------
(* C21 *)

\* any intent with any contacts and ray hits the engine can report
C21_AnyInputs == WindowInputs \cup StickyInputs \cup AssistedInputs

\* C21: in physical mode, after any calls of apply_action, dump_state and
\* load_state, every arm's held object, constraint handle, constraint
\* parameters, release counter and freeze flag are as constructed, there is
\* no constraint and no disabled collision, no gripper control is
\* overridden, a record kept has no grasp-state section, and a further
\* apply_action with any input, dump_state or load_state raises nothing,
\* drives no joint and changes nothing.
C21_PhysicalModeBypassesGrasping ==
    grasping_mode = "physical" =>
        /\ err = "none"
        /\ \A arm \in ArmSet :
            /\ _ag_data[arm] = None
            /\ _ag_obj_in_hand[arm] = None
            /\ _ag_obj_cid[arm] = None
            /\ heap[_ag_obj_cid_params[arm]] = EmptyDict
            /\ heap[_ag_freeze_joint_pos[arm]] = EmptyDict
            /\ _ag_release_counter[arm] = None
            /\ _ag_freeze_gripper[arm] = None
        /\ constraints = <<>>
        /\ coll_disabled = {}
        /\ _deploy_control(RobotState) = {}
        /\ ~HasAgDump(saved)
        /\ \A in \in C21_AnyInputs : Step(in) = RobotState
        /\ dump_state(RobotState).state = RobotState
        /\ "ManipulationRobot" \notin DOMAIN dump_state(RobotState).dump
        /\ saved # None => load_state(RobotState, saved[1]) = RobotState

\* a robot in physical mode whose caller keeps a record of dump_state
C21_PhysicalRecordKept == grasping_mode = "physical" /\ saved # None /\ err = "none"

-----------------------------------------------------------------------------
(* C22 *)

\* what candidate selection returns as a function of what the engine reports
\* alone: the contacts, the ray hits, the distances, the order the candidate
\* set iterates in (in.first, fixed by the order of the reported contacts and
\* hits) and the assistable predicate
C22_Selected(in) ==
    LET cs == IF grasping_mode = "assisted"
              THEN ContactPairsOf(in) \cap NotSelf(in.ray_results)
              ELSE ContactPairsOf(in)
    IN  IF cs = {} THEN None
        ELSE IF /\ in.can_assisted_grasp
                /\ Cardinality(FingersOn(in, in.first) \cap finger_link_ids) >= 2
             THEN in.first
             ELSE None

-----------------------------------------------------------------------------
(* C23 *)

-----------------------------------------------------------------------------
(* C24 *)

\* the body ids a caller can ask is_grasping about
C24_Candidates == {pr[1] : pr \in ContactPairs} \ {-1}

-----------------------------------------------------------------------------
(* C25 *)

\* C25: whatever the heat source stored before, after _update the value of
\* _get_value is (False, None) when the object has no heating element link
\* while requires_inside is false, or requires_toggled_on and is not toggled
\* on, or requires_closed and is open; otherwise it is (True, position of
\* the heating element) when requires_inside is false and (True, None) when
\* it is true.  _set_value raises and leaves status and position as stored.
C25_HeatSourceValue ==
    (err = "none" /\ heat_source # None) =>
        LET h == heat_source[1]
            u == _update(h)
            inactive == \/ ~h.requires_inside /\ h.obj.link_position = None
                        \/ h.requires_toggled_on /\ ~h.obj.toggled_on
                        \/ h.requires_closed /\ h.obj.open
        IN  /\ _get_value(u) =
                    IF inactive THEN <<Some(FALSE), None>>
                    ELSE IF ~h.requires_inside THEN <<Some(TRUE), h.obj.link_position>>
                    ELSE <<Some(TRUE), None>>
            /\ \A new_value \in BOOLEAN :
                /\ _set_value(h, new_value).raised = "NotImplementedError"
                /\ _get_value(_set_value(h, new_value).state) = _get_value(h)
                /\ _set_value(u, new_value).raised = "NotImplementedError"
                /\ _get_value(_set_value(u, new_value).state) = _get_value(u)

\* a heat source that requires its object closed was updated while the
\* object was closed, and the object is open now
C25_ActiveWhenClosed ==
    /\ heat_source # None
    /\ heat_source[1].requires_closed
    /\ ~heat_source[1].requires_inside
    /\ heat_source[1].obj.open
    /\ heat_source[1].status = Some(TRUE)
    /\ heat_source[1].position # None

-----------------------------------------------------------------------------
(* C26 *)

\* C26: for a Releasing arm, a step that returns before the release window
\* has passed increments the release counter by one whatever the command and
\* the contacts, runs no candidate search, establishes no grasp and leaves
\* the held object, the constraints and the disabled collisions unchanged.
C26_ReleasingIgnoresIntent ==
    Assisting =>
        \A arm \in ArmSet :
        \A i \in InputsRead(RobotState, arm) :
        \A in \in JointPosRead(RobotState, arm, i) :
            LET t == Step(in) IN
            (/\ Lifecycle(RobotState, arm) = "Releasing"
             /\ t.err = "none"
             /\ (_ag_release_counter[arm][1] + 1) * render_timestep < RELEASE_WINDOW) =>
                /\ t._ag_release_counter[arm] = Some(_ag_release_counter[arm][1] + 1)
                /\ t._ag_obj_in_hand[arm] = _ag_obj_in_hand[arm]
                /\ t._ag_data[arm] = _ag_data[arm]
                /\ t._ag_obj_cid[arm] = _ag_obj_cid[arm]
                /\ t.constraints = constraints
                /\ t.coll_disabled = coll_disabled

\* an arm has spent a step in Releasing and is Releasing still
C26_SecondStepOfRelease ==
    \E arm \in ArmSet :
        /\ Assisting
        /\ Lifecycle(RobotState, arm) = "Releasing"
        /\ _ag_release_counter[arm] = Some(1)
        /\ <<arm, _ag_obj_in_hand[arm][1]>> \in coll_disabled

-----------------------------------------------------------------------------
(* C27 *)

\* the step durations the release window is counted out for, in ticks
C27_StepDurations == 1..(RELEASE_WINDOW + 2)

\* the least k >= 1 with (counter + k) * timestep >= RELEASE_WINDOW
C27_StepsLeft(counter, timestep) ==
    CHOOSE k \in 1..RELEASE_WINDOW :
        /\ (counter + k) * timestep >= RELEASE_WINDOW
        /\ \A j \in 1..(k - 1) : (counter + j) * timestep < RELEASE_WINDOW

\* the arm after n further runs of the release window handler
RECURSIVE C27_After(_, _, _, _)
C27_After(s, arm, timestep, n) ==
    IF n = 0 THEN s
    ELSE C27_After(HandleReleaseWindowAt(s, arm, timestep), arm, timestep, n - 1)

\* in every state with a Releasing arm: the window has not passed yet; a
\* step with any input returns and either counts one step more or, when the
\* window has passed with it, leaves the arm Idle; and for every positive
\* step duration the handler leaves the arm Releasing for exactly the least
\* number of steps that fills the window
C27_WindowCountsOut ==
    Assisting =>
        \A arm \in ArmSet :
            Lifecycle(RobotState, arm) = "Releasing" =>
                LET c == _ag_release_counter[arm][1] IN
                /\ c * render_timestep < RELEASE_WINDOW
                /\ \A i \in InputsRead(RobotState, arm) :
                   \A in \in JointPosRead(RobotState, arm, i) :
                        LET t == Step(in) IN
                        /\ t.err = "none"
                        /\ Lifecycle(t, arm) =
                                IF C27_StepsLeft(c, render_timestep) = 1
                                THEN "Idle" ELSE "Releasing"
                /\ \A timestep \in C27_StepDurations :
                        c * timestep < RELEASE_WINDOW =>
                            LET k == C27_StepsLeft(c, timestep) IN
                            /\ Lifecycle(C27_After(RobotState, arm, timestep, k), arm) = "Idle"
                            /\ \A j \in 0..(k - 1) :
                                Lifecycle(C27_After(RobotState, arm, timestep, j), arm)
                                    = "Releasing"

\* C27: with a positive step duration an arm that enters Releasing stays
\* there for the least k >= 1 steps with k x step duration >= release
\* window and then is Idle: under apply_action steps, whatever their inputs,
\* a Releasing arm becomes Idle.
C27_ReleasingEnds ==
    /\ []C27_WindowCountsOut
    /\ (Lifecycle(RobotState, "0") = "Releasing") ~> (Lifecycle(RobotState, "0") = "Idle")

\* an arm that was Releasing is Idle again, the collision with the body it
\* held enabled, while what it selected last is still recorded
C27_IdleAfterRelease ==
    \E arm \in ArmSet :
        /\ Assisting
        /\ Lifecycle(RobotState, arm) = "Idle"
        /\ _ag_freeze_gripper[arm] = Some(FALSE)
        /\ coll_disabled = {}

-----------------------------------------------------------------------------
(* C28 *)

\* C28: for an Idle arm a step with a command >= 0, the command 0 included,
\* returns, runs no candidate search and leaves the held object, the
\* constraint handle, the constraint parameters, the frozen joint positions,
\* the release counter, the freeze flag, the constraints and the collision
\* filters unchanged; and of every command exactly one of < 0 and >= 0 holds.
C28_IdleOpenIsNoOp ==
    /\ \A a \in Commands : (a < 0) # (a >= 0)
    /\ Assisting =>
        \A arm \in ArmSet :
        \A i \in InputsRead(RobotState, arm) :
        \A in \in JointPosRead(RobotState, arm, i) :
            (Lifecycle(RobotState, arm) = "Idle" /\ in.action >= 0) =>
                LET t == Step(in) IN
                /\ t.err = "none"
                /\ t._ag_data[arm] = _ag_data[arm]
                /\ GraspState(t, arm) = GraspState(RobotState, arm)
                /\ t.heap[t._ag_freeze_joint_pos[arm]] = heap[_ag_freeze_joint_pos[arm]]
                /\ t.constraints = constraints
                /\ t.coll_disabled = coll_disabled
                /\ t.resets = {}

\* an arm is Idle again after a grasp and a release
C28_IdleAgain ==
    \E arm \in ArmSet :
        /\ Assisting
        /\ Lifecycle(RobotState, arm) = "Idle"
        /\ _ag_freeze_gripper[arm] = Some(FALSE)
        /\ heap[_ag_freeze_joint_pos[arm]] # EmptyDict

-----------------------------------------------------------------------------
(* C29 *)

\* the nearest candidate is not touched by two fingers while a farther one is
C29_FartherIsTouched(mode, in) ==
    /\ Cardinality(FingersOn(in, in.first) \cap finger_link_ids) < 2
    /\ \E c \in CandidatesSet(mode, in) :
        /\ in.dist[c] > in.dist[in.first]
        /\ Cardinality(FingersOn(in, c) \cap finger_link_ids) >= 2

-----------------------------------------------------------------------------
(* C30 *)

\* the controller of the arm has an issued command, the same for both
\* fingers, that still intends to move the gripper: a position command not
\* reached within the position tolerance, or a velocity or torque command
\* whose mean magnitude is not below the velocity tolerance
C30_IntendsToMove(c, g) ==
    /\ c.name = "ParallelJawGripperController"
    /\ c.mode # "independent"
    /\ c.control # None
    /\ c.control[1][1] = c.control[1][2]
    /\ c.limit_tolerance < POS_TOLERANCE
    /\ c.motor_type = "position" =>
            Abs(g.finger_pos[1] - c.control[1][1]) + Abs(g.finger_pos[2] - c.control[1][2])
                >= 2 * POS_TOLERANCE
    /\ c.motor_type \in {"velocity", "torque"} =>
            Abs(c.control[1][1]) + Abs(c.control[1][2]) >= 2 * VEL_TOLERANCE

\* every finger position lies within the joint limits
C30_WithinLimits(g) ==
    \A i \in 1..2 : joint_lower_limit <= g.finger_pos[i] /\ g.finger_pos[i] <= joint_upper_limit

\* C30: the decision table of is_grasping in physical mode.  A
\* NullGripperController gives FALSE and a JointController gives UNKNOWN.  For
\* a parallel jaw controller not in independent mode with an issued command
\* that still intends to move the gripper, a finger position outside the joint
\* limits fails an assertion and no value is returned; otherwise the result is
\* TRUE exactly when the mean distance of the finger positions from the lower
\* limit and from the upper limit both exceed the position tolerance and every
\* finger velocity magnitude is below the velocity tolerance, and FALSE
\* otherwise.
C30_PhysicalDecisionTable ==
    grasping_mode = "physical" =>
        \A arm \in ArmSet : \A g \in GripperReadings :
            LET c == _controllers[arm]
                r == is_grasping(RobotState, arm, None, g)
                mean_from_lower_exceeds ==
                    (g.finger_pos[1] - joint_lower_limit) + (g.finger_pos[2] - joint_lower_limit)
                        > 2 * POS_TOLERANCE
                mean_from_upper_exceeds ==
                    (joint_upper_limit - g.finger_pos[1]) + (joint_upper_limit - g.finger_pos[2])
                        > 2 * POS_TOLERANCE
                velocities_below ==
                    \A i \in 1..2 : Abs(g.finger_vel[i]) < VEL_TOLERANCE
            IN  /\ c.name = "NullGripperController" =>
                    r = [raised |-> "none", value |-> Some(IsGraspingState.FALSE)]
                /\ c.name = "JointController" =>
                    r = [raised |-> "none", value |-> Some(IsGraspingState.UNKNOWN)]
                /\ C30_IntendsToMove(c, g) =>
                    IF ~C30_WithinLimits(g)
                    THEN r = [raised |-> "AssertionError", value |-> None]
                    ELSE /\ r.raised = "none"
                         /\ r.value \in {Some(IsGraspingState.TRUE), Some(IsGraspingState.FALSE)}
                         /\ r.value = Some(IsGraspingState.TRUE)
                                <=> /\ mean_from_lower_exceeds
                                    /\ mean_from_upper_exceeds
                                    /\ velocities_below

\* is_grasping has returned TRUE for a parallel jaw controller that is not in
\* independent mode and has a command issued
C30_TrueWhileCommandPending ==
    \E arm \in ArmSet :
        /\ grasping_mode = "physical"
        /\ err = "none"
        /\ _controllers[arm].name = "ParallelJawGripperController"
        /\ _controllers[arm].mode # "independent"
        /\ _controllers[arm].control # None
        /\ is_grasping_state[arm] = Some(IsGraspingState.TRUE)

-----------------------------------------------------------------------------
(* C31 *)

\* the arm's live attachments are none, or the one its handle refers to
C31_OnlyTheHandle(s, arm) ==
    C14_AttachmentsOf(s, arm) =
        (IF s._ag_obj_cid[arm] = None THEN {} ELSE {s._ag_obj_cid[arm][1]})

\* the call that led from the current state to t did not take the arm from
\* holding one body to holding another
C31_NoSwitch(t, arm) ==
    (_ag_obj_in_hand[arm] # None /\ t._ag_obj_in_hand[arm] # None) =>
        t._ag_obj_in_hand[arm] = _ag_obj_in_hand[arm]

\* C31: for each arm, after any apply_action and load_state calls that
\* returned, the live attachments of the arm are none or exactly the one its
\* constraint handle refers to (none is left without a reference, there are
\* never two), and no apply_action or load_state takes the arm from holding a
\* body to holding another body.
C31_AttachmentsAreTheHandle ==
    Assisting =>
        \A arm \in ArmSet :
            /\ C31_OnlyTheHandle(RobotState, arm)
            /\ \A i \in InputsRead(RobotState, arm) :
               \A in \in JointPosRead(RobotState, arm, i) :
                    LET t == Step(in) IN
                    (t.err = "none" /\ ~t.capped) => C31_NoSwitch(t, arm)
            /\ HasAgDump(saved) =>
                    LET t == load_state(RobotState, saved[1]) IN
                    (t.err = "none" /\ ~t.capped) => C31_NoSwitch(t, arm)

-----------------------------------------------------------------------------
(* C32 *)

\* C32: for each arm and each body, after any apply_action and load_state
\* calls that returned, collision between the finger links of the arm and the
\* body is disabled if and only if the body is the arm's held object (the arm
\* Holding or Releasing it); so a body whose collision a grasp disabled has
\* it enabled again once the arm does not hold it.
C32_FilteredIffHeld ==
    Assisting =>
        \A arm \in ArmSet :
            {pr[2] : pr \in {x \in coll_disabled : x[1] = arm}} =
                (IF _ag_obj_in_hand[arm] = None THEN {} ELSE {_ag_obj_in_hand[arm][1]})

-----------------------------------------------------------------------------
(* C33 *)

\* what C33 says of one arm, with t the robot after load_state(dump_state())
C33_Restored(t, arm) ==
    /\ t.err = "none"
    /\ t._ag_obj_in_hand[arm] = _ag_obj_in_hand[arm]
    /\ t._ag_release_counter[arm] = _ag_release_counter[arm]
    /\ t._ag_freeze_gripper[arm] = _ag_freeze_gripper[arm]
    /\ t.heap[t._ag_freeze_joint_pos[arm]] = heap[_ag_freeze_joint_pos[arm]]
    /\ TruthyFlag(_ag_freeze_gripper[arm]) =>
            /\ _freeze_gripper(t, arm).err = "none"
            /\ _freeze_gripper(t, arm).resets = _freeze_gripper(RobotState, arm).resets

\* C33: for an arm that is Idle, Holding or Releasing, load_state(dump_state())
\* completes without an error and leaves the held object, the release
\* counter, the freeze flag and the frozen joint positions (the same joint
\* keys with the same targets) as they were, so that the freeze of the
\* gripper resets the same finger joints to the same positions afterwards.
C33_RoundTripKeepsGraspState ==
    Assisting =>
        LET r == dump_state(RobotState)
            t == load_state(r.state, r.dump)
        IN  /\ r.state.err = "none"
            /\ ~t.capped => \A arm \in ArmSet : C33_Restored(t, arm)

-----------------------------------------------------------------------------
(* C34 *)

\* the contents of the record the caller keeps, as they read in state s: the
\* values of its fields, the two dicts among them by what they hold
C34_RecordContents(s) ==
    LET rd == saved[1]["ManipulationRobot"] IN
    [k \in DOMAIN rd |->
        IF k \in {RefKeySeq[i] : i \in DOMAIN RefKeySeq} THEN s.heap[rd[k]] ELSE rd[k]]

\* C34: a record dump_state returned is a snapshot: no later apply_action (a
\* grasp, a release), dump_state or load_state changes what the record holds.
C34_RecordIsSnapshot ==
    (Assisting /\ HasAgDump(saved)) =>
        /\ \A arm \in ArmSet :
           \A i \in InputsRead(RobotState, arm) :
           \A in \in JointPosRead(RobotState, arm, i) :
                C34_RecordContents(Step(in)) = C34_RecordContents(RobotState)
        /\ C34_RecordContents(dump_state(RobotState).state) = C34_RecordContents(RobotState)
        /\ C34_RecordContents(load_state(RobotState, saved[1])) = C34_RecordContents(RobotState)

-----------------------------------------------------------------------------
(* C35 *)

\* the arm has a live constraint under its handle, from its end effector to
\* the body recorded as held
C35_LiveAttachment(arm) ==
    /\ _ag_obj_cid[arm] # None
    /\ _ag_obj_cid[arm][1] \in DOMAIN constraints
    /\ constraints[_ag_obj_cid[arm][1]].parent = arm
    /\ _ag_obj_in_hand[arm] # None
    /\ constraints[_ag_obj_cid[arm][1]].childBodyUniqueId = _ag_obj_in_hand[arm][1]

-----------------------------------------------------------------------------
(* C36 *)

\* the lifecycle state of every arm
C36_Lifecycles == [arm \in ArmSet |-> Lifecycle(RobotState, arm)]

\* the changes of lifecycle state one step may make
C36_Order ==
    {<<"Idle", "Idle">>, <<"Idle", "Holding">>,
     <<"Holding", "Holding">>, <<"Holding", "Releasing">>,
     <<"Releasing", "Releasing">>, <<"Releasing", "Idle">>}

\* C36: under apply_action steps alone every arm goes from Idle to Holding,
\* from Holding to Releasing and from Releasing to Idle and in no other way:
\* no step takes an arm from Holding to Idle, from Idle to Releasing or from
\* Releasing to Holding, and a held object is cleared only by the step of the
\* release window at which the time since the release has reached the window.
C36_LifecycleOrder ==
    [][\A arm \in ArmSet :
        /\ <<C36_Lifecycles[arm], C36_Lifecycles'[arm]>> \in C36_Order
        /\ (_ag_obj_in_hand[arm] # None /\ _ag_obj_in_hand'[arm] = None) =>
            /\ _ag_release_counter[arm] # None
            /\ (_ag_release_counter[arm][1] + 1) * render_timestep >= RELEASE_WINDOW
      ]_vars

\* an arm has gone through the whole cycle: it is Idle, its last grasp was
\* released, and no constraint and no collision filter remains
C36_CycleCompleted ==
    \E arm \in ArmSet :
        /\ Assisting
        /\ Lifecycle(RobotState, arm) = "Idle"
        /\ _ag_freeze_gripper[arm] = Some(FALSE)
        /\ constraints = <<>>
        /\ coll_disabled = {}

-----------------------------------------------------------------------------
(* C37 *)

\* the entries of a dict other than the child frame pose
C37_ButPose(d) ==
    SelectSeq(d, LAMBDA item :
        item[1] \notin {"childFramePosition", "childFrameOrientation"})

\* C37: dump_state does not raise and changes no lifecycle: for every arm the
\* held object, the constraint handle, the release counter, the freeze flag
\* and the frozen joint positions are as before, no constraint is created or
\* removed and no collision filter changes.  Only the constraint parameters
\* of an arm with a constraint handle change, and of them only the child
\* frame pose, which is set anew.
C37_DumpChangesOnlyPose ==
    Assisting =>
        LET t == dump_state(RobotState).state IN
        /\ t.err = "none"
        /\ t.constraints = constraints
        /\ t.coll_disabled = coll_disabled
        /\ t._ag_data = _ag_data
        /\ t._ag_obj_in_hand = _ag_obj_in_hand
        /\ t._ag_obj_cid = _ag_obj_cid
        /\ t._ag_release_counter = _ag_release_counter
        /\ t._ag_freeze_gripper = _ag_freeze_gripper
        /\ t._ag_freeze_joint_pos = _ag_freeze_joint_pos
        /\ t._ag_obj_cid_params = _ag_obj_cid_params
        /\ DOMAIN t.heap = DOMAIN heap
        /\ \A a \in DOMAIN heap :
            IF \E arm \in ArmSet : _ag_obj_cid[arm] # None /\ _ag_obj_cid_params[arm] = a
            THEN /\ C37_ButPose(t.heap[a]) = C37_ButPose(heap[a])
                 /\ {"childFramePosition", "childFrameOrientation"} \subseteq DictKeys(t.heap[a])
            ELSE t.heap[a] = heap[a]

\* a record was taken of an arm with a constraint handle: the parameters the
\* arm and the record share hold the child frame pose
C37_PoseRefreshed ==
    \E arm \in ArmSet :
        /\ Assisting
        /\ HasAgDump(saved)
        /\ _ag_obj_cid[arm] # None
        /\ saved[1]["ManipulationRobot"][KeyOf(arm, "obj_cid_params")] = _ag_obj_cid_params[arm]
        /\ "childFramePosition" \in DictKeys(heap[_ag_obj_cid_params[arm]])

-----------------------------------------------------------------------------
(* C38 *)

\* construction whose try block raised has killed the child process
C38_ConstructionEnds ==
    \A debug \in BOOLEAN :
    \A fails \in {ConstructionCalls(debug)[i] : i \in DOMAIN ConstructionCalls(debug)} :
        LET e == SimpleEnv(debug, fails) IN
        e.ended /\ e.p_channel = "killed" /\ e.raised = "none"

\* a step that succeeded stored the new state and returned the reward
C38_StepStores(e, out, r) ==
    r.returned # None =>
        /\ r.state_old = Some(out.state)
        /\ r.returned[1][2] =
                IF e.state_old = None THEN 0
                ELSE 5 * (e.state_old[1][1][2] - out.state[1][2])

\* C38: a construction of SimpleEnv or a call of _step in which an exception
\* is raised ends the environment: the handler invokes _end, which kills the
\* depth-render child process.  A step that succeeds stores the new physics
\* state as state_old and its reward is 0 when there was no state before and
\* 5 * (old distance_to_target - new distance_to_target) otherwise.
C38_ExceptionEndsAndStepStores ==
    (err = "none" /\ simple_env # None) =>
        /\ C38_ConstructionEnds
        /\ \A out \in StepOutcomes :
            LET e == simple_env[1]
                r == _step(e, out)
            IN  /\ r.returned = None => (r.ended /\ r.p_channel = "killed")
                /\ C38_StepStores(e, out, r)

====
